---- MODULE Spec2Model ----
(***************************************************************************)
(* The staged evidence pipeline of research-bot: enqueueForSymbol mints a  *)
(* task and enqueues ingest; one worker per stage takes a waiting job and  *)
(* runs the stage handler (Ingestion, Normalization, Embedding, Synthesis) *)
(* against the document/metric/filing/embedding/snapshot stores and the    *)
(* per-stage queues.                                                       *)
(*                                                                         *)
(* Encodings.  A Result<T, AppBoundaryError> is Ok(v) or Err(e).  An       *)
(* optional list of the payload (providerFailures?, stageIssues?) is a     *)
(* sequence, <<>> standing for both undefined and []; the optional record  *)
(* metricsDiagnostics? is a sequence of zero or one record.  Dates are     *)
(* clock ticks.  The id generator hands out unique opaque values: task ids *)
(* are numbered, and the k-th id drawn by a handler for a job is the pair   *)
(* <<task id, k>>.                                                         *)
(***************************************************************************)
EXTENDS Integers, Sequences, FiniteSets, TLC

VARIABLES now, nextTask, requests, queue, documents, metrics, filings,
          embeddings, snapshots, lastExec, call, ingested

vars == <<now, nextTask, requests, queue, documents, metrics, filings,
          embeddings, snapshots, lastExec, call, ingested>>

\* ------------------------------------------------------------------ bounds
MaxTime == 2
TicksPerHour == 2
MaxRequests == 1
MaxRuns == 2
MaxStalledCount == 1

\* --------------------------------------------------------- small utilities
Range(s) == {s[i] : i \in 1..Len(s)}

Min(a, b) == IF a <= b THEN a ELSE b

Take(s, n) == SubSeq(s, 1, Min(n, Len(s)))

Ok(v) == [ok |-> TRUE, value |-> v]

Err(e) == [ok |-> FALSE, error |-> e]

Stages == <<"ingest", "normalize", "embed", "synthesize">>

StageIndex(stage) == CHOOSE i \in 1..Len(Stages) : Stages[i] = stage

\* ------------------------------------------------------- clock and id ports
\* SystemClock.now(): the wall clock, in ticks.
ClockNow == now

\* UuidIdGenerator.next(): a value never handed out before; base names the
\* execution that draws it and k counts its draws.
IdsNext(base, k) == base \o <<k>>

\* variant: the bucket is the UTC day
HourBucket_Day(t) == t \div (24 * TicksPerHour)

\* Date.toISOString().slice(0, 13): the timestamp truncated to its UTC hour.
HourBucket(t) == t \div TicksPerHour

\* ------------------------------------------------------ strings, by character
Lowers == <<"a", "b", "c", "d", "e", "f", "g", "h", "i", "j", "k", "l", "m",
            "n", "o", "p", "q", "r", "s", "t", "u", "v", "w", "x", "y", "z">>

Uppers == <<"A", "B", "C", "D", "E", "F", "G", "H", "I", "J", "K", "L", "M",
            "N", "O", "P", "Q", "R", "S", "T", "U", "V", "W", "X", "Y", "Z">>

Digits == {"0", "1", "2", "3", "4", "5", "6", "7", "8", "9"}

\* the characters of the strings the model works with
Spell(s) ==
  CASE s = "" -> <<>>
    [] s = " " -> <<" ">>
    [] s = "ttwo" -> <<"t", "t", "w", "o">>
    [] s = " ttwo " -> <<" ", "t", "t", "w", "o", " ">>
    [] s = "TTWO" -> <<"T", "T", "W", "O">>
    [] s = "RYCEY" -> <<"R", "Y", "C", "E", "Y">>
    [] s = "rr.l" -> <<"r", "r", ".", "l">>
    [] s = "RR.L" -> <<"R", "R", ".", "L">>
    [] s = "BRK-B" -> <<"B", "R", "K", "-", "B">>
    [] s = "BRK:B" -> <<"B", "R", "K", ":", "B">>
    [] s = "ROLLS ROYCE" ->
         <<"R", "O", "L", "L", "S", " ", "R", "O", "Y", "C", "E">>
    [] s = "Rolls-Royce" ->
         <<"R", "o", "l", "l", "s", "-", "R", "o", "y", "c", "e">>
    [] s = "ROLLS-ROYCE" ->
         <<"R", "O", "L", "L", "S", "-", "R", "O", "Y", "C", "E">>
    [] s = "ROLLS-ROYCE HOLDINGS PLC" ->
         <<"R", "O", "L", "L", "S", "-", "R", "O", "Y", "C", "E", " ",
           "H", "O", "L", "D", "I", "N", "G", "S", " ", "P", "L", "C">>
    [] s = "T T W O !" -> <<"T", " ", "T", " ", "W", " ", "O", " ", "!">>
    [] s = "ABCDEFGHIJKL" ->
         <<"A", "B", "C", "D", "E", "F", "G", "H", "I", "J", "K", "L">>
    [] s = "ABCDEFGHIJKLM" ->
         <<"A", "B", "C", "D", "E", "F", "G", "H", "I", "J", "K", "L", "M">>
    [] s = "ingest" -> <<"i", "n", "g", "e", "s", "t">>
    [] s = "normalize" -> <<"n", "o", "r", "m", "a", "l", "i", "z", "e">>
    [] s = "embed" -> <<"e", "m", "b", "e", "d">>
    [] s = "synthesize" ->
         <<"s", "y", "n", "t", "h", "e", "s", "i", "z", "e">>
    [] s = "force" -> <<"f", "o", "r", "c", "e">>
    [] s = "finnhub" -> <<"f", "i", "n", "n", "h", "u", "b">>
    [] s = "mock-news" -> <<"m", "o", "c", "k", "-", "n", "e", "w", "s">>
    [] s = "Mock-News" -> <<"M", "o", "c", "k", "-", "N", "e", "w", "s">>
    [] s = " mock-news" ->
         <<" ", "m", "o", "c", "k", "-", "n", "e", "w", "s">>
    [] s = "smock" -> <<"s", "m", "o", "c", "k">>
    [] s = "moc" -> <<"m", "o", "c">>
    [] s = "mock" -> <<"m", "o", "c", "k">>

Spelled == {"", " ", "ttwo", " ttwo ", "TTWO", "RYCEY", "rr.l", "RR.L",
            "BRK-B", "BRK:B", "ROLLS ROYCE", "Rolls-Royce", "ROLLS-ROYCE",
            "ROLLS-ROYCE HOLDINGS PLC", "T T W O !", "ABCDEFGHIJKL",
            "ABCDEFGHIJKLM", "ingest", "normalize", "embed", "synthesize",
            "force", "finnhub", "mock-news", "Mock-News", " mock-news",
            "smock", "moc", "mock"}

\* the string with the given characters
Unspell(chars) == CHOOSE s \in Spelled : Spell(s) = chars

\* String.prototype.trim() on a sequence of characters
RECURSIVE TrimStart(_)
TrimStart(chars) ==
  IF chars # <<>> /\ Head(chars) = " " THEN TrimStart(Tail(chars)) ELSE chars

RECURSIVE TrimEnd(_)
TrimEnd(chars) ==
  IF chars # <<>> /\ chars[Len(chars)] = " "
    THEN TrimEnd(SubSeq(chars, 1, Len(chars) - 1))
    ELSE chars

Trim(chars) == TrimEnd(TrimStart(chars))

\* String.prototype.toUpperCase() and toLowerCase(), character by character
UpperChar(c) ==
  IF \E i \in 1..Len(Lowers) : Lowers[i] = c
    THEN Uppers[CHOOSE i \in 1..Len(Lowers) : Lowers[i] = c]
    ELSE c

LowerChar(c) ==
  IF \E i \in 1..Len(Uppers) : Uppers[i] = c
    THEN Lowers[CHOOSE i \in 1..Len(Uppers) : Uppers[i] = c]
    ELSE c

UpperChars(chars) == [i \in 1..Len(chars) |-> UpperChar(chars[i])]

LowerChars(chars) == [i \in 1..Len(chars) |-> LowerChar(chars[i])]

\* ---------------------------------------------------------- company resolver
SymbolInputs == {"ttwo", " ttwo ", "TTWO", "RYCEY", "rr.l", "BRK-B", "BRK:B",
                 "ROLLS ROYCE", "Rolls-Royce", "", " ", "T T W O !",
                 "ABCDEFGHIJKL", "ABCDEFGHIJKLM"}

\* request.symbolOrName.trim().toUpperCase()
TrimUpperCase(s) == Unspell(UpperChars(Trim(Spell(s))))

ManualIdentityKeys == {"RYCEY", "RR.L", "ROLLS ROYCE", "ROLLS-ROYCE",
                       "ROLLS-ROYCE HOLDINGS PLC"}

ManualAliases == <<"RYCEY", "RR.L">>

\* variant: the pattern also admits a colon
TickerPatternTest_Colon(s) ==
  /\ Len(Spell(s)) \in 1..12
  /\ Range(Spell(s)) \subseteq Range(Uppers) \cup Digits \cup {".", "-", ":"}

\* TICKER_PATTERN = /^[A-Z0-9.\-]{1,12}$/
TickerPatternTest(s) ==
  /\ Len(Spell(s)) \in 1..12
  /\ Range(Spell(s)) \subseteq Range(Uppers) \cup Digits \cup {".", "-"}

\* variant: the ticker shape is tried before the manual map
resolveCompany_ShapeFirst(symbolOrName) ==
  LET normalized == TrimUpperCase(symbolOrName)
  IN IF normalized = ""
       THEN Err([source |-> "resolver", code |-> "validation_error",
                 provider |-> "company-resolver", retryable |-> FALSE])
     ELSE IF TickerPatternTest(normalized)
       THEN Ok([requestedSymbol |-> normalized,
                canonicalSymbol |-> normalized,
                confidence |-> 40,
                resolutionSource |-> "heuristic"])
     ELSE IF normalized \in ManualIdentityKeys
       THEN Ok([requestedSymbol |-> normalized,
                canonicalSymbol |-> IF normalized \in Range(ManualAliases)
                                      THEN normalized ELSE ManualAliases[1],
                confidence |-> 99,
                resolutionSource |-> "manual_map"])
     ELSE Err([source |-> "resolver", code |-> "validation_error",
               provider |-> "company-resolver", retryable |-> FALSE])

resolveCompany(symbolOrName) ==
  LET normalized == TrimUpperCase(symbolOrName)
  IN IF normalized = ""
       THEN Err([source |-> "resolver", code |-> "validation_error",
                 provider |-> "company-resolver", retryable |-> FALSE])
     ELSE IF normalized \in ManualIdentityKeys
       THEN Ok([requestedSymbol |-> normalized,
                canonicalSymbol |-> IF normalized \in Range(ManualAliases)
                                      THEN normalized ELSE ManualAliases[1],
                confidence |-> 99,
                resolutionSource |-> "manual_map"])
     ELSE IF TickerPatternTest(normalized)
       THEN Ok([requestedSymbol |-> normalized,
                canonicalSymbol |-> normalized,
                confidence |-> 40,
                resolutionSource |-> "heuristic"])
     ELSE Err([source |-> "resolver", code |-> "validation_error",
               provider |-> "company-resolver", retryable |-> FALSE])

\* ------------------------------------------------------------- task factory
\* String.prototype.toUpperCase()
ToUpperCase(s) == Unspell(UpperChars(Spell(s)))

\* `${symbol.toUpperCase()}-${stage}-${hourBucket}`: the key as its
\* hyphen-separated parts
TaskFactoryCreate(symbol, stage, id, clockNow) ==
  [id |-> id,
   symbol |-> ToUpperCase(symbol),
   requestedAt |-> clockNow,
   priority |-> 3,
   stage |-> stage,
   idempotencyKey |-> <<ToUpperCase(symbol), stage, HourBucket(clockNow)>>]

\* ResearchTaskEntity.runId: the run identity minted with the task
TaskRunId(id) == id

\* ------------------------------------------------------------------- queue
QUEUE_RETRIES == 2

Attempts == QUEUE_RETRIES + 1

\* variant: the job is added without a custom job id
BullMqEnqueue_NoJobId(q, stage, payload) ==
  q \cup {[stage |-> stage, jobId |-> payload.idempotencyKey,
           data |-> payload, state |-> "waiting", attemptsMade |-> 0,
           stalledCount |-> 0]}

\* Queue.add(name, data, {jobId}): a job id already present in the stage's
\* queue makes the add a no-op
BullMqEnqueue(q, stage, payload) ==
  IF \E j \in q : j.stage = stage /\ j.jobId = payload.idempotencyKey
    THEN q
    ELSE q \cup {[stage |-> stage, jobId |-> payload.idempotencyKey,
                  data |-> payload, state |-> "waiting", attemptsMade |-> 0,
           stalledCount |-> 0]}

RECURSIVE EnqueueAll(_, _)
EnqueueAll(q, calls) ==
  IF calls = <<>> THEN q
  ELSE EnqueueAll(BullMqEnqueue(q, Head(calls).stage, Head(calls).payload),
                  Tail(calls))

\* variant: a job that threw goes back to wait whatever its attempt count
JobAfterAttempt_Unbounded(job, threw) ==
  IF ~threw THEN [job EXCEPT !.state = "completed", !.attemptsMade = 0]
  ELSE [job EXCEPT !.state = "waiting", !.attemptsMade = job.attemptsMade + 1]

\* the worker's bookkeeping after the processor returned or threw; the
\* attempt count decides retries and is not kept for a completed job
JobAfterAttempt(job, threw) ==
  IF ~threw THEN [job EXCEPT !.state = "completed", !.attemptsMade = 0]
  ELSE IF job.attemptsMade + 1 >= Attempts
    THEN [job EXCEPT !.state = "failed", !.attemptsMade = job.attemptsMade + 1]
  ELSE [job EXCEPT !.state = "waiting", !.attemptsMade = job.attemptsMade + 1]

\* the worker died after the processor's last step and before the job was
\* acknowledged: the stalled-job check moves the job back to wait
JobAfterStall(job) == [job EXCEPT !.stalledCount = job.stalledCount + 1]

\* ------------------------------------------------------------ orchestrator
\* variant: the suffix does not carry the task id
ForcedKey_NoTaskId(key, taskId) == key \o <<"force">>

\* `${task.idempotencyKey}-force-${task.id}`
ForcedKey(key, taskId) == key \o <<"force", taskId>>

\* now.toISOString().slice(0, 13), "2026-11-05T10": its characters
HourBucketChars == Digits \cup {"-", "T"}

\* crypto.randomUUID(): lower-case hexadecimal digits and hyphens
UuidChars == Digits \cup {"a", "b", "c", "d", "e", "f", "-"}

\* the characters of a key once its parts are joined by hyphens
KeyChars(key) ==
  Range(Spell(key[1])) \cup {"-"} \cup Range(Spell(key[2]))
    \cup HourBucketChars
    \cup (IF Len(key) > 3 THEN Range(Spell(key[4])) \cup UuidChars ELSE {})

EnqueuePayload(task, identity, force) ==
  [runId |-> TaskRunId(task.id),
   taskId |-> task.id,
   symbol |-> task.symbol,
   idempotencyKey |-> IF force THEN ForcedKey(task.idempotencyKey, task.id)
                               ELSE task.idempotencyKey,
   requestedAt |-> task.requestedAt,
   resolvedIdentity |-> identity,
   metricsDiagnostics |-> <<>>,
   providerFailures |-> <<>>,
   stageIssues |-> <<>>]

\* ------------------------------------------------------ provider responses
\* the AppBoundaryError each boundary produces when it fails
NewsError == [source |-> "news", code |-> "timeout",
              provider |-> "finnhub", retryable |-> TRUE]

MetricsError == [source |-> "metrics", code |-> "auth_invalid",
                 provider |-> "alphavantage", retryable |-> FALSE]

FilingsError == [source |-> "filings", code |-> "validation_error",
                 provider |-> "sec-edgar", retryable |-> FALSE]

LlmError == [source |-> "llm", code |-> "rate_limited",
             provider |-> "ollama", retryable |-> TRUE]

EmbeddingError == [source |-> "embedding", code |-> "provider_error",
                   provider |-> "ollama", retryable |-> TRUE]

\* NormalizedNewsItem values a news provider can return
NewsItem1 == [provider |-> "finnhub", providerItemId |-> "fh-1",
              title |-> "headline 1", publishedAt |-> 2]

NewsItem2 == [provider |-> "mock-news", providerItemId |-> "mock-1",
              title |-> "headline 2", publishedAt |-> 1]

NewsResults == {Err(NewsError), Ok(<<NewsItem1>>),
                Ok(<<NewsItem1, NewsItem2>>)}

MetricItem1 == [provider |-> "alphavantage", metricName |-> "market_cap",
                asOf |-> 1]

MetricsResults ==
  {Err(MetricsError),
   Ok([metrics |-> <<MetricItem1>>,
       diagnostics |-> [provider |-> "alphavantage", status |-> "ok",
                        metricCount |-> 1]])}

FilingItem1 == [provider |-> "sec-edgar", accessionNo |-> "0001",
                filingType |-> "8-K", filedAt |-> 1]

FilingsResults == {Err(FilingsError), Ok(<<>>)}

LlmResults == {Err(LlmError), Ok("generated text")}

\* embedTexts(texts): an error, or one vector fewer than, as many as, or one
\* more than the texts; the i-th vector is written <<i>>
EmbeddingResults(n) ==
  {Err(EmbeddingError)}
    \cup {Ok([i \in 1..k |-> <<i>>]) : k \in {n - 1, n, n + 1} \cap Nat}

\* the answers of providers, LLM and embedding model when none of them fails
SteadyNewsResults == {Ok(<<NewsItem1>>), Ok(<<NewsItem1, NewsItem2>>)}

SteadyMetricsResults == {r \in MetricsResults : r.ok}

SteadyFilingsResults == {Ok(<<FilingItem1>>)}

SteadyLlmResults == {r \in LlmResults : r.ok}

SteadyEmbeddingResults(n) == {Ok([i \in 1..n |-> <<i>>])}

\* ---------------------------------------------------------- repositories
NoRunId == 0

\* variant: a plain insert
DocumentUpsertMany_Insert(table, docs) == table \cup Range(docs)

\* variant: on conflict do nothing
RECURSIVE DocumentUpsertMany_KeepOld(_, _)
DocumentUpsertMany_KeepOld(table, docs) ==
  IF docs = <<>> THEN table
  ELSE LET d == Head(docs)
           hit == {r \in table : r.provider = d.provider
                                 /\ r.providerItemId = d.providerItemId}
       IN DocumentUpsertMany_KeepOld(IF hit = {} THEN table \cup {d}
                                     ELSE table, Tail(docs))

\* insert ... onConflictDoUpdate(target: provider, providerItemId): a
\* conflicting row keeps its id, symbol and publishedAt and takes the new
\* run, task and title
RECURSIVE DocumentUpsertMany(_, _)
DocumentUpsertMany(table, docs) ==
  IF docs = <<>> THEN table
  ELSE LET d == Head(docs)
           hit == {r \in table : r.provider = d.provider
                                 /\ r.providerItemId = d.providerItemId}
           merged == {[r EXCEPT !.runId = d.runId, !.taskId = d.taskId,
                                !.title = d.title] : r \in hit}
       IN DocumentUpsertMany(IF hit = {} THEN table \cup {d}
                             ELSE (table \ hit) \cup merged, Tail(docs))

\* conflict target (symbol, provider, metricName, asOf)
RECURSIVE MetricsUpsertMany(_, _)
MetricsUpsertMany(table, points) ==
  IF points = <<>> THEN table
  ELSE LET m == Head(points)
           hit == {r \in table : r.symbol = m.symbol /\ r.provider = m.provider
                                 /\ r.metricName = m.metricName
                                 /\ r.asOf = m.asOf}
           merged == {[r EXCEPT !.runId = m.runId, !.taskId = m.taskId] :
                      r \in hit}
       IN MetricsUpsertMany(IF hit = {} THEN table \cup {m}
                            ELSE (table \ hit) \cup merged, Tail(points))

\* conflict target (provider, dedupeKey)
RECURSIVE FilingsUpsertMany(_, _)
FilingsUpsertMany(table, items) ==
  IF items = <<>> THEN table
  ELSE LET f == Head(items)
           hit == {r \in table : r.provider = f.provider
                                 /\ r.dedupeKey = f.dedupeKey}
           merged == {[r EXCEPT !.runId = f.runId, !.taskId = f.taskId,
                                !.symbol = f.symbol, !.filedAt = f.filedAt] :
                      r \in hit}
       IN FilingsUpsertMany(IF hit = {} THEN table \cup {f}
                            ELSE (table \ hit) \cup merged, Tail(items))

\* rows ordered by a date column, latest first
OrderByDesc(rows, col) ==
  LET sorted[rest \in SUBSET rows] ==
        IF rest = {} THEN <<>>
        ELSE LET top == CHOOSE r \in rest : \A o \in rest : r[col] >= o[col]
             IN <<top>> \o sorted[rest \ {top}]
  IN sorted[rows]

\* variant: the run id is not part of the filter
WhereClause_SymbolOnly(table, symbol, runId) ==
  {r \in table : r.symbol = ToUpperCase(symbol)}

\* where symbol = upper(symbol) [and run_id = runId], order by, limit
WhereClause(table, symbol, runId) ==
  IF runId # NoRunId
    THEN {r \in table : r.symbol = ToUpperCase(symbol) /\ r.runId = runId}
    ELSE {r \in table : r.symbol = ToUpperCase(symbol)}

DocumentListBySymbol(table, symbol, limit, runId) ==
  Take(OrderByDesc(WhereClause(table, symbol, runId), "publishedAt"), limit)

MetricsListBySymbol(table, symbol, limit, runId) ==
  Take(OrderByDesc(WhereClause(table, symbol, runId), "asOf"), limit)

FilingsListBySymbol(table, symbol, limit, runId) ==
  Take(OrderByDesc(WhereClause(table, symbol, runId), "filedAt"), limit)

\* insert into embeddings ... on conflict (document_id) do update
EmbeddingUpsertForDocument(table, documentId, symbol, runId, taskId, vector) ==
  {r \in table : r.documentId # documentId}
    \cup {[documentId |-> documentId, runId |-> runId, taskId |-> taskId,
           symbol |-> ToUpperCase(symbol), embedding |-> vector]}

\* variant: the insert is skipped
SnapshotSave_Skipped(table, snapshot) == table

\* insert into snapshots values (snapshot)
SnapshotSave(table, snapshot) == table \cup {snapshot}

\* --------------------------------------------------------------- Ingestion
\* accession number when the provider gives one, else symbol and URL
buildFilingDedupeKey(symbol, accessionNo) == <<"accession", accessionNo>>

PersistedFailureStatuses ==
  {"rate_limited", "timeout", "provider_error", "auth_invalid",
   "config_invalid", "malformed_response", "transport_error", "invalid_json"}

mapFailureStatus(error) ==
  IF error.code \in PersistedFailureStatuses THEN error.code
  ELSE "provider_error"

\* variant: every failure is attributed to the news source
toProviderFailure_AsNews(source, error) ==
  [source |-> "news", provider |-> error.provider,
   status |-> mapFailureStatus(error), itemCount |-> 0,
   retryable |-> error.retryable]

toProviderFailure(source, error) ==
  [source |-> source, provider |-> error.provider,
   status |-> mapFailureStatus(error), itemCount |-> 0,
   retryable |-> error.retryable]

\* variant: the stage fails as soon as one source fails
AllSourcesFailed_AnyErr(newsResult, metricsResult, filingsResult) ==
  Cardinality({i \in 1..3 :
                 <<newsResult, metricsResult, filingsResult>>[i].ok}) < 3

\* variant: ingestion goes on whatever the sources returned
AllSourcesFailed_Never(newsResult, metricsResult, filingsResult) == FALSE

\* successfulSources.length === 0
AllSourcesFailed(newsResult, metricsResult, filingsResult) ==
  Cardinality({i \in 1..3 :
                 <<newsResult, metricsResult, filingsResult>>[i].ok}) = 0

NoEffect ==
  [threw |-> FALSE, documents |-> <<>>, metricEntities |-> <<>>,
   filingEntities |-> <<>>, embeddings |-> <<>>, snapshots |-> <<>>,
   enqueues |-> <<>>, reads |-> <<>>, calls |-> <<>>, steps |-> <<>>,
   rejected |-> FALSE]

\* variant: the normalize job is enqueued without waiting for the upserts
IngestionSteps_EnqueueEarly ==
  <<{"fetchArticles", "fetchMetrics", "fetchFilings"},
    {"documentRepo.upsertMany", "metricsRepo.upsertMany",
     "filingsRepo.upsertMany", "enqueue"}>>

\* the awaited steps of run(), in order; the operations of one step are
\* started together and the step ends when all of them have ended
\* (await Promise.all)
IngestionSteps ==
  <<{"fetchArticles", "fetchMetrics", "fetchFilings"},
    {"documentRepo.upsertMany", "metricsRepo.upsertMany",
     "filingsRepo.upsertMany"},
    {"enqueue"}>>

IngestionRun(payload, clockNow, idBase, newsResult, metricsResult, filingsResult) ==
  LET calls == <<[port |-> "news", ok |-> newsResult.ok],
                 [port |-> "metrics", ok |-> metricsResult.ok],
                 [port |-> "filings", ok |-> filingsResult.ok]>>
  IN IF AllSourcesFailed(newsResult, metricsResult, filingsResult)
       THEN [NoEffect EXCEPT !.threw = TRUE, !.calls = calls,
                             !.steps = SubSeq(IngestionSteps, 1, 1)]
     ELSE
       LET news == IF newsResult.ok THEN newsResult.value ELSE <<>>
           fallbackMetrics ==
             [metrics |-> <<>>,
              diagnostics |-> [provider |-> "metrics-boundary",
                               status |-> "provider_error",
                               metricCount |-> 0]]
           metricsPayload == IF metricsResult.ok THEN metricsResult.value
                             ELSE fallbackMetrics
           metricItems == metricsPayload.metrics
           filingItems == IF filingsResult.ok THEN filingsResult.value
                          ELSE <<>>
           providerFailures ==
             (IF newsResult.ok THEN <<>>
              ELSE <<toProviderFailure("news", newsResult.error)>>)
             \o (IF metricsResult.ok THEN <<>>
                 ELSE <<toProviderFailure("metrics", metricsResult.error)>>)
             \o (IF filingsResult.ok THEN <<>>
                 ELSE <<toProviderFailure("filings", filingsResult.error)>>)
           documentEntities ==
             [i \in 1..Len(news) |->
                [id |-> IdsNext(idBase, i),
                 runId |-> payload.runId, taskId |-> payload.taskId,
                 symbol |-> payload.symbol,
                 provider |-> news[i].provider,
                 providerItemId |-> news[i].providerItemId,
                 title |-> news[i].title,
                 publishedAt |-> news[i].publishedAt]]
           metricEntities ==
             [i \in 1..Len(metricItems) |->
                [id |-> IdsNext(idBase, Len(news) + i),
                 runId |-> payload.runId, taskId |-> payload.taskId,
                 symbol |-> payload.symbol,
                 provider |-> metricItems[i].provider,
                 metricName |-> metricItems[i].metricName,
                 asOf |-> metricItems[i].asOf]]
           filingEntities ==
             [i \in 1..Len(filingItems) |->
                [id |-> IdsNext(idBase, Len(news) + Len(metricItems) + i),
                 runId |-> payload.runId, taskId |-> payload.taskId,
                 symbol |-> payload.symbol,
                 provider |-> filingItems[i].provider,
                 dedupeKey |-> buildFilingDedupeKey(payload.symbol,
                                                    filingItems[i].accessionNo),
                 filingType |-> filingItems[i].filingType,
                 filedAt |-> filingItems[i].filedAt]]
       IN [NoEffect EXCEPT
             !.calls = calls,
             !.steps = IngestionSteps,
             !.documents = documentEntities,
             !.metricEntities = metricEntities,
             !.filingEntities = filingEntities,
             !.enqueues =
                <<[stage |-> "normalize",
                   payload |->
                     [payload EXCEPT
                        !.metricsDiagnostics =
                           <<[provider |-> metricsPayload.diagnostics.provider,
                              status |-> metricsPayload.diagnostics.status,
                              metricCount |->
                                 metricsPayload.diagnostics.metricCount]>>,
                        !.providerFailures = providerFailures]]>>]

\* --------------------------------------------- Normalization and Embedding
\* variant: the payload is rebuilt field by field and the identity left out
withStageIssue_NoIdentity(payload, issue) ==
  [payload EXCEPT !.stageIssues = Append(payload.stageIssues, issue),
                  !.resolvedIdentity = <<>>]

\* variant: the new issue replaces the issues already attached
withStageIssue_Overwrite(payload, issue) ==
  [payload EXCEPT !.stageIssues = <<issue>>]

\* { ...payload, stageIssues: [...(payload.stageIssues ?? []), issue] }
withStageIssue(payload, issue) ==
  [payload EXCEPT !.stageIssues = Append(payload.stageIssues, issue)]

\* variant: the issue is attributed to the embed stage
toStageIssue_WrongStage(error) ==
  [stage |-> "embed", status |-> "degraded", provider |-> error.provider,
   code |-> error.code, retryable |-> error.retryable]

toStageIssue(error) ==
  [stage |-> "normalize", status |-> "degraded", provider |-> error.provider,
   code |-> error.code, retryable |-> error.retryable]

\* variant: the adapter failure is reported as a failed stage
toAdapterIssue_Failed(error) ==
  [stage |-> "embed", status |-> "failed", provider |-> error.provider,
   code |-> error.code, retryable |-> error.retryable]

toAdapterIssue(error) ==
  [stage |-> "embed", status |-> "degraded", provider |-> error.provider,
   code |-> error.code, retryable |-> error.retryable]

RunIds(rows) == {rows[i].runId : i \in 1..Len(rows)}

ReadRecord(repo, symbol, limit, runId, rows) ==
  [repo |-> repo, symbol |-> symbol, limit |-> limit, runId |-> runId,
   rowRuns |-> RunIds(rows), rowIds |-> [i \in 1..Len(rows) |-> rows[i].id]]

NormalizationReadLimit == 30

\* variant: the read is not run-scoped
NormalizationReadRunId_Unscoped(payload) == NoRunId

\* the run id Normalization hands to listBySymbol
NormalizationReadRunId(payload) == payload.runId

\* variant: a failed summary sends the job back to its own stage
NormalizationDegradedStage_Self == "normalize"

\* the stage Normalization enqueues when the summary failed
NormalizationDegradedStage == "embed"

NormalizationRun(payload, documentTable, summaryResult) ==
  LET docs == DocumentListBySymbol(documentTable, payload.symbol,
                                   NormalizationReadLimit,
                                   NormalizationReadRunId(payload))
      reads == <<ReadRecord("documents", payload.symbol,
                            NormalizationReadLimit,
                            NormalizationReadRunId(payload), docs)>>
  IN IF Len(docs) = 0
       THEN [NoEffect EXCEPT
               !.reads = reads,
               !.enqueues = <<[stage |-> "synthesize", payload |-> payload]>>]
     ELSE IF ~summaryResult.ok
       THEN [NoEffect EXCEPT
               !.reads = reads,
               !.calls = <<[port |-> "llm.summarize", ok |-> FALSE]>>,
               !.enqueues =
                  <<[stage |-> NormalizationDegradedStage,
                     payload |-> withStageIssue(
                                   payload,
                                   toStageIssue(summaryResult.error))]>>]
     ELSE [NoEffect EXCEPT
             !.reads = reads,
             !.calls = <<[port |-> "llm.summarize", ok |-> TRUE]>>,
             !.enqueues = <<[stage |-> "embed", payload |-> payload]>>]

EmbeddingReadLimit == 20

\* variant: nothing is persisted when the counts differ
PersistCount_NoneOnMismatch(docs, vectors) ==
  IF Len(docs) = Len(vectors) THEN Len(docs) ELSE 0

\* Math.min(docs.length, vectors.length)
PersistCount(docs, vectors) == Min(Len(docs), Len(vectors))

\* variant: a failed embedTexts call makes run() throw
EmbeddingRun_Escalates(payload, documentTable, vectorsResult) ==
  LET docs == DocumentListBySymbol(documentTable, payload.symbol,
                                   EmbeddingReadLimit, payload.runId)
  IN [NoEffect EXCEPT
        !.threw = ~vectorsResult.ok,
        !.reads = <<ReadRecord("documents", payload.symbol,
                               EmbeddingReadLimit, payload.runId, docs)>>,
        !.calls = <<[port |-> "embedTexts", ok |-> vectorsResult.ok,
                     returned |-> 0]>>,
        !.enqueues = IF vectorsResult.ok
                       THEN <<[stage |-> "synthesize", payload |-> payload]>>
                       ELSE <<>>]

EmbeddingRun(payload, documentTable, vectorsResult) ==
  LET docs == DocumentListBySymbol(documentTable, payload.symbol,
                                   EmbeddingReadLimit, payload.runId)
      reads == <<ReadRecord("documents", payload.symbol, EmbeddingReadLimit,
                            payload.runId, docs)>>
  IN IF Len(docs) = 0
       THEN [NoEffect EXCEPT
               !.reads = reads,
               !.steps = <<{"listBySymbol"}, {"enqueue"}>>,
               !.enqueues = <<[stage |-> "synthesize", payload |-> payload]>>]
     ELSE IF ~vectorsResult.ok
       THEN [NoEffect EXCEPT
               !.reads = reads,
               !.steps = <<{"listBySymbol"}, {"embedTexts"}, {"enqueue"}>>,
               !.calls = <<[port |-> "embedTexts", ok |-> FALSE,
                            returned |-> 0]>>,
               !.enqueues =
                  <<[stage |-> "synthesize",
                     payload |-> withStageIssue(
                                   payload,
                                   toAdapterIssue(vectorsResult.error))]>>]
     ELSE
       LET vectors == vectorsResult.value
           nextPayload ==
             IF Len(vectors) # Len(docs)
               THEN withStageIssue(payload,
                      [stage |-> "embed", status |-> "degraded",
                       provider |-> "embedding",
                       code |-> "dimension_mismatch", retryable |-> FALSE])
               ELSE payload
           persistCount == PersistCount(docs, vectors)
       IN [NoEffect EXCEPT
             !.reads = reads,
             !.steps = <<{"listBySymbol"}, {"embedTexts"}>>
                         \o [i \in 1..persistCount |-> {"upsertForDocument"}]
                         \o <<{"enqueue"}>>,
             !.calls = <<[port |-> "embedTexts", ok |-> TRUE,
                          returned |-> Len(vectors)]>>,
             !.embeddings =
                [i \in 1..persistCount |->
                   [documentId |-> docs[i].id, vector |-> vectors[i]]],
             !.enqueues = <<[stage |-> "synthesize",
                             payload |-> nextPayload]>>]

\* documentRepo.listBySymbol rejects: run() catches nothing and rejects
NormalizationReadRejects(payload) ==
  [NoEffect EXCEPT
     !.threw = TRUE, !.rejected = TRUE,
     !.reads = <<ReadRecord("documents", payload.symbol,
                            NormalizationReadLimit,
                            NormalizationReadRunId(payload), <<>>)>>]

\* embeddingRepo.upsertForDocument rejects for the first document: run()
\* catches nothing and rejects before the enqueue
EmbeddingUpsertRejects(payload, documentTable, vectorsResult) ==
  LET eff == EmbeddingRun(payload, documentTable, vectorsResult)
  IN [eff EXCEPT !.threw = TRUE, !.rejected = TRUE, !.embeddings = <<>>,
                 !.enqueues = <<>>,
                 !.steps = <<{"listBySymbol"}, {"embedTexts"},
                             {"upsertForDocument"}>>]

\* --------------------------------------------------------------- Synthesis
SynthesisDocumentLimit == 15

SynthesisMetricLimit == 20

SynthesisFilingLimit == 10

\* run(): the three run-scoped reads, the llm.synthesize call, whose result
\* is taken as the thesis without being inspected, and snapshotRepo.save
SynthesisRun(payload, documentTable, metricsTable, filingsTable, clockNow, idBase, thesisResult) ==
  LET docsRaw == DocumentListBySymbol(documentTable, payload.symbol,
                                      SynthesisDocumentLimit, payload.runId)
      metricsRaw == MetricsListBySymbol(metricsTable, payload.symbol,
                                        SynthesisMetricLimit, payload.runId)
      filingsRaw == FilingsListBySymbol(filingsTable, payload.symbol,
                                        SynthesisFilingLimit, payload.runId)
      thesis == thesisResult
  IN [NoEffect EXCEPT
        !.reads = <<ReadRecord("documents", payload.symbol,
                               SynthesisDocumentLimit, payload.runId, docsRaw),
                    ReadRecord("metrics", payload.symbol,
                               SynthesisMetricLimit, payload.runId, metricsRaw),
                    ReadRecord("filings", payload.symbol,
                               SynthesisFilingLimit, payload.runId,
                               filingsRaw)>>,
        !.calls = <<[port |-> "llm.synthesize", ok |-> thesisResult.ok]>>,
        !.snapshots =
           <<[id |-> IdsNext(idBase, 1),
              runId |-> payload.runId,
              taskId |-> payload.taskId,
              symbol |-> payload.symbol,
              horizon |-> "12m",
              thesis |-> thesis,
              diagnostics |-> [metrics |-> payload.metricsDiagnostics,
                               providerFailures |-> <<>>,
                               stageIssues |-> <<>>,
                               identity |-> <<>>],
              createdAt |-> clockNow]>>]

\* ------------------------------------------------------- news aggregator
MaxProviders == 2
MaxArticles == 2

\* normalizeUrl(value) = value.trim().toLowerCase()
normalizeUrl(value) == LowerChars(Trim(value))

ArticleA1 == [title |-> "a1", url |-> <<"a">>, publishedAt |-> 1]

ArticleA2 == [title |-> "a2", url |-> <<" ", "A">>, publishedAt |-> 2]

ArticleA3 == [title |-> "a3", url |-> <<"A">>, publishedAt |-> 2]

ArticleB == [title |-> "b", url |-> <<"b">>, publishedAt |-> 3]

ArticleN1 == [title |-> "n1", url |-> <<>>, publishedAt |-> 3]

ArticleN2 == [title |-> "n2", url |-> <<" ">>, publishedAt |-> 1]

Articles == {ArticleA1, ArticleA2, ArticleA3, ArticleB, ArticleN1, ArticleN2}

SeqsUpTo(S, n) == UNION {[1..k -> S] : k \in 0..n}

\* how the promise of one provider's fetchArticles settles
Fulfilled(result) == [status |-> "fulfilled", value |-> result]

Rejected == [status |-> "rejected"]

ProviderError(name) ==
  [source |-> "news", code |-> "provider_error", provider |-> name]

ProviderOutcomes ==
  {Rejected, Fulfilled(Err(ProviderError("first"))),
   Fulfilled(Err(ProviderError("second")))}
    \cup {Fulfilled(Ok(items)) : items \in SeqsUpTo(Articles, MaxArticles)}

\* the items of the providers that returned Ok, in provider order
RECURSIVE MergedOf(_)
MergedOf(settled) ==
  IF settled = <<>> THEN <<>>
  ELSE LET result == Head(settled)
       IN (IF result.status = "fulfilled" /\ result.value.ok
             THEN result.value.value ELSE <<>>) \o MergedOf(Tail(settled))

\* the errors of the providers that returned Err, in provider order
RECURSIVE FailuresOf(_)
FailuresOf(settled) ==
  IF settled = <<>> THEN <<>>
  ELSE LET result == Head(settled)
       IN (IF result.status = "fulfilled" /\ ~result.value.ok
             THEN <<result.value.error>> ELSE <<>>) \o FailuresOf(Tail(settled))

\* variant: the item seen last replaces the one held
ReplacesExisting_Always(item, existing) == TRUE

\* item.publishedAt.getTime() > existing.publishedAt.getTime()
ReplacesExisting(item, existing) == item.publishedAt > existing.publishedAt

\* variant: items without a URL are dropped
WithoutUrlPush_Dropped(withoutUrl, item) == withoutUrl

\* withoutUrl.push(item)
WithoutUrlPush(withoutUrl, item) == Append(withoutUrl, item)

\* the Map keyed by normalized URL, in insertion order, followed by the items
\* without a URL
RECURSIVE DedupeFrom(_, _, _)
DedupeFrom(items, dedupedByUrl, withoutUrl) ==
  IF items = <<>> THEN dedupedByUrl \o withoutUrl
  ELSE LET item == Head(items)
           key == normalizeUrl(item.url)
           held == {i \in 1..Len(dedupedByUrl) :
                      normalizeUrl(dedupedByUrl[i].url) = key}
       IN IF Len(key) = 0
            THEN DedupeFrom(Tail(items), dedupedByUrl,
                            WithoutUrlPush(withoutUrl, item))
          ELSE IF held = {}
            THEN DedupeFrom(Tail(items), Append(dedupedByUrl, item),
                            withoutUrl)
          ELSE LET i == CHOOSE i \in held : TRUE
               IN IF ReplacesExisting(item, dedupedByUrl[i])
                    THEN DedupeFrom(Tail(items),
                                    [dedupedByUrl EXCEPT ![i] = item],
                                    withoutUrl)
                    ELSE DedupeFrom(Tail(items), dedupedByUrl, withoutUrl)

DedupeByUrl(merged) == DedupeFrom(merged, <<>>, <<>>)

\* Array.prototype.sort with a comparator on one numeric field, latest
\* first; the sort is stable
RECURSIVE InsertDesc(_, _, _)
InsertDesc(sorted, item, col) ==
  IF sorted = <<>> THEN <<item>>
  ELSE IF item[col] > Head(sorted)[col] THEN <<item>> \o sorted
  ELSE <<Head(sorted)>> \o InsertDesc(Tail(sorted), item, col)

RECURSIVE SortDesc(_, _)
SortDesc(items, col) ==
  IF items = <<>> THEN <<>>
  ELSE InsertDesc(SortDesc(SubSeq(items, 1, Len(items) - 1), col),
                  items[Len(items)], col)

\* variant: the list is cut without being sorted
SortByPublishedAt_Unsorted(items) == items

SortByPublishedAt(items) == SortDesc(items, "publishedAt")

\* variant: the limit is ignored
Slice_NoLimit(items, limit) == items

\* Array.prototype.slice(0, limit), limit >= 0
Slice(items, limit) == Take(items, limit)

\* MultiNewsProvider.fetchArticles(request), given how each provider settled
fetchArticles(settled, limit) ==
  LET merged == MergedOf(settled)
      failures == FailuresOf(settled)
  IN IF Len(merged) = 0 /\ Len(failures) > 0
       THEN Err(failures[1])
       ELSE Ok(Slice(SortByPublishedAt(DedupeByUrl(merged)), limit))

\* ------------------------------------------- synthesis: evidence selection
MaxEvidence == 3

EvidenceProviders == {"finnhub", "mock-news", "Mock-News", " mock-news",
                      "smock", "moc"}

StartsWith(chars, prefix) ==
  /\ Len(chars) >= Len(prefix)
  /\ SubSeq(chars, 1, Len(prefix)) = prefix

\* variant: the name is not trimmed
isMockProvider_Untrimmed(provider) ==
  StartsWith(LowerChars(Spell(provider)), Spell("mock"))

\* provider.trim().toLowerCase().startsWith("mock")
isMockProvider(provider) ==
  StartsWith(LowerChars(Trim(Spell(provider))), Spell("mock"))

\* variant: mock items are dropped whether or not a real item exists
preferRealProviders_AlwaysFilter(items) ==
  SelectSeq(items, LAMBDA item : ~isMockProvider(item.provider))

\* variant: nothing is dropped
preferRealProviders_KeepAll(items) == items

preferRealProviders(items) ==
  IF Len(items) = 0 THEN items
  ELSE LET hasReal == \E i \in 1..Len(items) :
                        ~isMockProvider(items[i].provider)
       IN IF ~hasReal THEN items
          ELSE SelectSeq(items, LAMBDA item : ~isMockProvider(item.provider))

MaxMetricPoints == 10
MaxShortMetrics == 3

LatestMetricsCap == 8

MetricNames == <<"revenue", "eps", "pe", "margin", "debt", "cash", "fcf",
                 "roe", "beta">>

\* a list of n points over the nine names, the tenth repeating the first
LongMetrics(n, shift) ==
  [i \in 1..n |->
     [metricName |-> MetricNames[((i - 1) % Len(MetricNames)) + 1],
      asOf |-> (i * shift) % 4, metricValue |-> i]]

ShortMetricPoints ==
  [metricName : {"revenue", "eps"}, asOf : {1, 2}, metricValue : {0}]

MetricInputs ==
  SeqsUpTo(ShortMetricPoints, MaxShortMetrics)
    \cup {LongMetrics(n, shift) : n \in 4..MaxMetricPoints, shift \in 0..3}

\* variant: the point seen first is kept
MetricReplaces_Never(metric, current) == FALSE

\* metric.asOf > current.asOf
MetricReplaces(metric, current) == metric.asOf > current.asOf

\* the Map keyed by metric name, in insertion order
RECURSIVE LatestFrom(_, _)
LatestFrom(metricPoints, byName) ==
  IF metricPoints = <<>> THEN byName
  ELSE LET metric == Head(metricPoints)
           held == {i \in 1..Len(byName) :
                      byName[i].metricName = metric.metricName}
       IN IF held = {}
            THEN LatestFrom(Tail(metricPoints), Append(byName, metric))
          ELSE LET i == CHOOSE i \in held : TRUE
               IN IF MetricReplaces(metric, byName[i])
                    THEN LatestFrom(Tail(metricPoints),
                                    [byName EXCEPT ![i] = metric])
                    ELSE LatestFrom(Tail(metricPoints), byName)

\* variant: the reduced list is not sorted
latestMetricByName_Unsorted(metricPoints) == LatestFrom(metricPoints, <<>>)

latestMetricByName(metricPoints) ==
  SortDesc(LatestFrom(metricPoints, <<>>), "asOf")

\* this.latestMetricByName(metrics).slice(0, 8)
LatestMetrics(metricPoints) ==
  Slice(latestMetricByName(metricPoints), LatestMetricsCap)

\* ------------------------------------------------ synthesis: citation list
MaxCited == 2

\* an optional string that is absent
Undefined == <<"undefined">>

\* source.url ?? ""
OrEmpty(text) == IF text = Undefined THEN <<>> ELSE text

CitedDocuments ==
  [provider : {<<"p">>, <<"p", "|">>},
   url : {Undefined, <<>>, <<"u">>, <<"|", "u">>},
   title : {<<"F">>}]

CitedMetrics ==
  [provider : {<<"p">>}, metricName : {<<"e", "p", "s">>}, asOf : {1, 2}]

CitedFilings ==
  [provider : {<<"p">>}, docUrl : {<<>>, <<"u">>},
   filingType : {<<"F">>}, accessionNo : {Undefined, <<"1">>}]

\* Date.toISOString() of the few instants the model uses
ToISOString(t) == IF t = 1 THEN <<"2026-01-01T00:00:00.000Z">>
                  ELSE <<"2026-01-02T00:00:00.000Z">>

DocumentSource(doc) ==
  [provider |-> doc.provider, url |-> doc.url, title |-> doc.title]

\* `metric:${metric.metricName} asOf:${metric.asOf.toISOString()}`
MetricSource(metric) ==
  [provider |-> metric.provider,
   title |-> <<"m", "e", "t", "r", "i", "c", ":">> \o metric.metricName
               \o <<" ", "a", "s", "O", "f", ":">> \o ToISOString(metric.asOf)]

\* `${filing.filingType} ${filing.accessionNo ?? ""}`.trim()
FilingSource(filing) ==
  [provider |-> filing.provider, url |-> filing.docUrl,
   title |-> Trim(filing.filingType \o <<" ">> \o OrEmpty(filing.accessionNo))]

\* `${source.provider}|${source.url ?? ""}|${source.title}`
UrlSourceKey(source) ==
  source.provider \o <<"|">> \o OrEmpty(source.url) \o <<"|">> \o source.title

\* `${source.provider}|${source.title}`
PlainSourceKey(source) == source.provider \o <<"|">> \o source.title

\* variant: the keys seen are not remembered
SeenAdd_Forgets(seen, key) == seen

\* seen.add(key)
SeenAdd(seen, key) == seen \cup {key}

\* Array.prototype.filter over the sources with the shared set of keys seen:
\* the sources kept and the set afterwards
RECURSIVE FilterSeen(_, _, _, _)
FilterSeen(sources, Key(_), seen, kept) ==
  IF sources = <<>> THEN [kept |-> kept, seen |-> seen]
  ELSE LET key == Key(Head(sources))
       IN IF key \in seen
            THEN FilterSeen(Tail(sources), Key, seen, kept)
            ELSE FilterSeen(Tail(sources), Key, SeenAdd(seen, key),
                            Append(kept, Head(sources)))

MapSeq(f(_), s) == [i \in 1..Len(s) |-> f(s[i])]

uniqueSources(docs, metricPoints, filingRows) ==
  LET documentSources ==
        FilterSeen(MapSeq(DocumentSource, docs), UrlSourceKey, {}, <<>>)
      metricSources ==
        FilterSeen(MapSeq(MetricSource, metricPoints), PlainSourceKey,
                   documentSources.seen, <<>>)
      filingSources ==
        FilterSeen(MapSeq(FilingSource, filingRows), UrlSourceKey,
                   metricSources.seen, <<>>)
  IN documentSources.kept \o metricSources.kept \o filingSources.kept

\* ---------------------------------------------------------- synthesis: score
MaxDocsCount == 21
MaxMetricsCount == 9
MaxFilingsCount == 8

\* Number.parseFloat(x.toFixed(1)) of x = thirtieths / 30, in tenths; no
\* sum of the contributions lies halfway between two tenths
ToFixed1(thirtieths) == (thirtieths + 1) \div 3

\* variant: the documents' contribution has no cap
DocsContribution_NoCap(docsCount) == docsCount * 45

\* Math.min(30, docsCount * 1.5), in thirtieths
DocsContribution(docsCount) == Min(900, docsCount * 45)

\* Math.min(35, metricsCount * 4.5), in thirtieths
MetricsContribution(metricsCount) == Min(1050, metricsCount * 135)

\* Math.min(25, filingsCount * 4), in thirtieths
FilingsContribution(filingsCount) == Min(750, filingsCount * 120)

\* (evidenceTypes.filter(Boolean).length / evidenceTypes.length) * 10, in
\* thirtieths
CoverageBonus(docsCount, metricsCount, filingsCount) ==
  Cardinality({k \in {<<"docs", docsCount>>, <<"metrics", metricsCount>>,
                      <<"filings", filingsCount>>} : k[2] > 0}) * 100

Max(a, b) == IF a >= b THEN a ELSE b

\* the score in tenths
computeScore(docsCount, metricsCount, filingsCount) ==
  Max(0, Min(1000,
    ToFixed1(DocsContribution(docsCount) + MetricsContribution(metricsCount)
             + FilingsContribution(filingsCount)
             + CoverageBonus(docsCount, metricsCount, filingsCount))))

\* ----------------------------------------------------- synthesis: confidence
MaxConfidenceDocs == 3
MaxConfidenceMetrics == 6

\* instants, in hours
EvidenceTimes == {100, 900}

ClockTimes == {900, 948, 949, 1068, 1069, 1620, 1621}

ConfidenceProviders == {"finnhub", "alphavantage", "mock-news"}

coreMetricNames == {"market_cap", "price_to_earnings", "revenue_growth_yoy",
                    "profit_margin", "eps"}

ConfidenceMetricNames == <<"market_cap", "beta", "eps", "price_to_earnings",
                           "revenue_growth_yoy", "profit_margin", "roe">>

IsSortedDesc(items, col) ==
  \A i, j \in 1..Len(items) : i < j => items[i][col] >= items[j][col]

\* documents as listBySymbol returns them: latest first
ConfidenceDocs ==
  {docs \in SeqsUpTo([provider : ConfidenceProviders,
                      publishedAt : EvidenceTimes], MaxConfidenceDocs) :
     IsSortedDesc(docs, "publishedAt")}

\* metrics as latestMetricByName returns them: one point per name, latest
\* first
ConfidenceMetrics ==
  {[i \in 1..n |-> [metricName |-> ConfidenceMetricNames[i],
                    asOf |-> IF i <= k THEN 900 ELSE 100]] :
     n \in 0..MaxConfidenceMetrics, k \in 0..1}

ConfidenceFilings ==
  {<<>>} \cup {<<[filedAt |-> t]>> : t \in EvidenceTimes}
    \cup {<<[filedAt |-> 900], [filedAt |-> 100]>>}

\* items.at(0)?.[col]?.getTime() ?? 0
FirstTime(items, col) == IF Len(items) = 0 THEN 0 ELSE items[1][col]

\* the adjustment for evidence of the given age, in hundredths
RecencyAdjustment(hoursOld) ==
  IF hoursOld <= 48 THEN 8
  ELSE IF hoursOld <= 7 * 24 THEN 5
  ELSE IF hoursOld <= 30 * 24 THEN 2
  ELSE 0 - 7

\* variant: the result is not clamped
Clamp_None(low, high, x) == x

\* Math.max(low, Math.min(high, x))
Clamp(low, high, x) == Max(low, Min(high, x))

\* the confidence in hundredths
computeConfidence(docs, metricPoints, filingRows, clockNow) ==
  LET kinds == Cardinality({k \in {<<"docs", Len(docs)>>,
                                   <<"metrics", Len(metricPoints)>>,
                                   <<"filings", Len(filingRows)>>} : k[2] > 0})
      documentProviderCount ==
        Cardinality({docs[i].provider : i \in 1..Len(docs)})
      coveredMetricNames ==
        {metricPoints[i].metricName : i \in 1..Len(metricPoints)}
          \cap coreMetricNames
      latestEvidenceTime ==
        Max(FirstTime(docs, "publishedAt"),
            Max(FirstTime(metricPoints, "asOf"),
                FirstTime(filingRows, "filedAt")))
      confidence ==
        25 + kinds * 12
           + Min(8, documentProviderCount * 3)
           + (Cardinality(coveredMetricNames) * 15)
               \div Cardinality(coreMetricNames)
           + (IF latestEvidenceTime > 0
                THEN RecencyAdjustment(clockNow - latestEvidenceTime) ELSE 0)
           - (IF Len(docs) = 0 THEN 6 ELSE 0)
           - (IF Len(metricPoints) = 0 THEN 8 ELSE 0)
           - (IF Len(filingRows) = 0 THEN 4 ELSE 0)
  IN Clamp(10, 90, confidence)

\* ------------------------------------------------------------ http client
MaxHttpRetries == 2

\* what fetch and response.json() do in one attempt
FetchOutcomes == {"json", "bad_json", "status_404", "status_429",
                  "status_500", "aborted", "network_error"}

HttpError(code, retryable) == Err([code |-> code, retryable |-> retryable])

\* HttpJsonClient.performRequest: every outcome of fetch becomes a Result
performRequest(outcome) ==
  CASE outcome = "json" -> Ok("body")
    [] outcome = "bad_json" -> HttpError("invalid_json", FALSE)
    [] outcome = "status_404" -> HttpError("non_success_status", FALSE)
    [] outcome = "status_429" -> HttpError("non_success_status", TRUE)
    [] outcome = "status_500" -> HttpError("non_success_status", TRUE)
    [] outcome = "aborted" -> HttpError("timeout", TRUE)
    [] outcome = "network_error" -> HttpError("transport_error", TRUE)

\* variant: the last attempt counts as having attempts left
HasAttemptsLeft_Always(attempt, maxAttempts) == attempt <= maxAttempts

\* attempt < maxAttempts
HasAttemptsLeft(attempt, maxAttempts) == attempt < maxAttempts

\* the for loop of requestJson from the given attempt on: the Result returned,
\* the number of requests performed and the delays awaited
RECURSIVE RequestLoop(_, _, _, _)
RequestLoop(maxAttempts, outcomes, attempt, delays) ==
  IF attempt > maxAttempts
    THEN [result |-> HttpError("transport_error", FALSE),
          performed |-> attempt - 1, delays |-> delays]
  ELSE LET response == performRequest(outcomes[attempt])
       IN IF response.ok
            THEN [result |-> response, performed |-> attempt,
                  delays |-> delays]
          ELSE IF ~response.error.retryable
                    \/ ~HasAttemptsLeft(attempt, maxAttempts)
            THEN [result |-> response, performed |-> attempt,
                  delays |-> delays]
          ELSE RequestLoop(maxAttempts, outcomes, attempt + 1,
                           Append(delays, attempt))

\* HttpJsonClient.requestJson(request), given what each fetch will do
requestJson(retries, outcomes) == RequestLoop(retries + 1, outcomes, 1, <<>>)

\* ------------------------------------------------------------------ state
NoExec ==
  [stage |-> "none", payload |-> <<>>, threw |-> FALSE, enqueues |-> <<>>,
   reads |-> <<>>, calls |-> <<>>, saved |-> <<>>, persisted |-> <<>>,
   upserted |-> 0, upsertedKeys |-> {}, steps |-> <<>>, rejected |-> FALSE,
   stalled |-> FALSE]

\* the natural keys of the rows a handler run handed to upsertMany
UpsertedKeys(eff) ==
  {<<"documents", eff.documents[i].provider, eff.documents[i].providerItemId>> :
     i \in 1..Len(eff.documents)}
  \cup {<<"metrics", eff.metricEntities[i].symbol,
          eff.metricEntities[i].provider, eff.metricEntities[i].metricName,
          eff.metricEntities[i].asOf>> : i \in 1..Len(eff.metricEntities)}
  \cup {<<"filings", eff.filingEntities[i].provider,
          eff.filingEntities[i].dedupeKey>> : i \in 1..Len(eff.filingEntities)}

\* the documents a handler run handed to upsertMany, with the run it did it
\* for: what has been ingested for each run, whatever became of the rows
IngestedBy(runId, eff) ==
  {[runId |-> runId, provider |-> eff.documents[i].provider,
    providerItemId |-> eff.documents[i].providerItemId] :
     i \in 1..Len(eff.documents)}

ExecRecord(stage, payload, eff) ==
  [stage |-> stage, payload |-> payload, threw |-> eff.threw,
   enqueues |-> eff.enqueues, reads |-> eff.reads, calls |-> eff.calls,
   saved |-> eff.snapshots, persisted |-> eff.embeddings,
   upserted |-> Len(eff.documents) + Len(eff.metricEntities)
                  + Len(eff.filingEntities),
   upsertedKeys |-> UpsertedKeys(eff), steps |-> eff.steps,
   rejected |-> eff.rejected, stalled |-> FALSE]

\* no function has been applied
NoCall == [fn |-> "none"]

\* the record of one application of a function to its arguments
Applied(fn, args, result) == [fn |-> fn, args |-> args, result |-> result]

Init ==
  /\ now = 0
  /\ nextTask = 1
  /\ requests = <<>>
  /\ queue = {}
  /\ documents = {}
  /\ metrics = {}
  /\ filings = {}
  /\ embeddings = {}
  /\ snapshots = {}
  /\ lastExec = NoExec
  /\ call = NoCall
  /\ ingested = {}

\* the wall clock advances; it is followed until the last request is made
TickUpTo(limit) ==
  /\ now < MaxTime
  /\ Len(requests) < limit
  /\ now' = now + 1
  /\ UNCHANGED <<nextTask, requests, queue, documents, metrics, filings,
                 embeddings, snapshots, lastExec, call, ingested>>

EnqueueInputs == {"ttwo", "ROLLS ROYCE", " "}

RunInputs == {"ttwo", "TTWO", "RYCEY", " "}

\* the state of the job that holds the id in the stage's queue, if any
JobFound(q, stage, jobId) ==
  IF \E j \in q : j.stage = stage /\ j.jobId = jobId
    THEN (CHOOSE j \in q : j.stage = stage /\ j.jobId = jobId).state
    ELSE "none"

\* variant: the resolver's Err is not looked at
EnqueueForSymbol_Unchecked(symbol, stage, force) ==
  /\ LET resolution == resolveCompany(symbol)
         canonical == IF resolution.ok
                        THEN resolution.value.canonicalSymbol
                        ELSE "TTWO"
         task == TaskFactoryCreate(canonical, stage, nextTask, ClockNow)
         payload == EnqueuePayload(task, <<>>, force)
     IN /\ queue' = BullMqEnqueue(queue, stage, payload)
        /\ nextTask' = nextTask + 1
        /\ requests' = Append(requests,
             [symbol |-> symbol, stage |-> stage, force |-> force,
              at |-> ClockNow, resolved |-> resolution.ok,
              canonical |-> canonical,
              idempotencyKey |-> payload.idempotencyKey,
              taskId |-> task.id,
              found |-> JobFound(queue, stage, payload.idempotencyKey)])
  /\ UNCHANGED <<now, documents, metrics, filings, embeddings, snapshots,
                 lastExec, call, ingested>>

\* ResearchOrchestratorService.enqueueForSymbol(symbol, stage, force)
EnqueueForSymbol(symbol, stage, force) ==
  /\ LET resolution == resolveCompany(symbol)
     IN IF ~resolution.ok
          THEN /\ requests' = Append(requests,
                    [symbol |-> symbol, stage |-> stage, force |-> force,
                     at |-> ClockNow, resolved |-> FALSE, canonical |-> "",
                     idempotencyKey |-> <<>>, taskId |-> 0,
                     found |-> "none"])
               /\ UNCHANGED <<nextTask, queue>>
          ELSE LET identity == resolution.value
                   task == TaskFactoryCreate(identity.canonicalSymbol, stage,
                                             nextTask, ClockNow)
                   payload == EnqueuePayload(task, identity, force)
               IN /\ queue' = BullMqEnqueue(queue, stage, payload)
                  /\ nextTask' = nextTask + 1
                  /\ requests' = Append(requests,
                       [symbol |-> symbol, stage |-> stage, force |-> force,
                        at |-> ClockNow, resolved |-> TRUE,
                        canonical |-> identity.canonicalSymbol,
                        idempotencyKey |-> payload.idempotencyKey,
                        taskId |-> task.id,
                        found |-> JobFound(queue, stage,
                                           payload.idempotencyKey)])
  /\ UNCHANGED <<now, documents, metrics, filings, embeddings, snapshots,
                 lastExec, call, ingested>>

\* a stage worker takes a waiting job, runs the processor on job.data and
\* records the attempt; the effects of the handler reach the stores and the
\* queues
ApplyWith(job, eff, jobAfter, stalled) ==
  /\ documents' = DocumentUpsertMany(documents, eff.documents)
  /\ metrics' = MetricsUpsertMany(metrics, eff.metricEntities)
  /\ filings' = FilingsUpsertMany(filings, eff.filingEntities)
  /\ embeddings' =
       LET RECURSIVE Persist(_, _)
           Persist(table, items) ==
             IF items = <<>> THEN table
             ELSE Persist(EmbeddingUpsertForDocument(
                            table, Head(items).documentId, job.data.symbol,
                            job.data.runId, job.data.taskId,
                            Head(items).vector),
                          Tail(items))
       IN Persist(embeddings, eff.embeddings)
  /\ snapshots' =
       LET RECURSIVE SaveAll(_, _)
           SaveAll(table, items) ==
             IF items = <<>> THEN table
             ELSE SaveAll(SnapshotSave(table, Head(items)), Tail(items))
       IN SaveAll(snapshots, eff.snapshots)
  /\ queue' = EnqueueAll((queue \ {job}) \cup {jobAfter}, eff.enqueues)
  /\ lastExec' = [ExecRecord(job.stage, job.data, eff) EXCEPT
                    !.stalled = stalled]
  /\ ingested' = ingested \cup IngestedBy(job.data.runId, eff)
  /\ UNCHANGED <<now, nextTask, requests, call>>

\* the processor returned or threw and the worker settled the job
Apply(job, eff) == ApplyWith(job, eff, JobAfterAttempt(job, eff.threw), FALSE)

\* the processor went through all its steps and the worker died before it
\* settled the job
ApplyStalled(job, eff) ==
  /\ ~eff.threw
  /\ job.stalledCount < MaxStalledCount
  /\ ApplyWith(job, eff, JobAfterStall(job), TRUE)

\* ids.next() gives a fresh value on every call: the values of one processor
\* run are told apart from those of an earlier run of the same job
IdBase(job) == <<job.data.taskId, job.attemptsMade + job.stalledCount>>

Waiting(stage) == {j \in queue : j.stage = stage /\ j.state = "waiting"}

Settle(job, eff, stalled) ==
  \E effect \in {eff} :
    IF stalled THEN ApplyStalled(job, effect) ELSE Apply(job, effect)

IngestStep(newsResults, metricsResults, filingsResults, stalled) ==
  \E job \in Waiting("ingest") :
    \E newsResult \in newsResults, metricsResult \in metricsResults,
       filingsResult \in filingsResults :
      Settle(job, IngestionRun(job.data, ClockNow, IdBase(job), newsResult,
                               metricsResult, filingsResult), stalled)

NormalizeStep(llmResults, stalled) ==
  \E job \in Waiting("normalize") :
    \E summaryResult \in llmResults :
      Settle(job, NormalizationRun(job.data, documents, summaryResult),
             stalled)

EmbedStep(steady, stalled) ==
  \E job \in Waiting("embed") :
    LET n == Len(DocumentListBySymbol(documents, job.data.symbol,
                                      EmbeddingReadLimit, job.data.runId))
    IN \E vectorsResult \in (IF steady THEN SteadyEmbeddingResults(n)
                                       ELSE EmbeddingResults(n)) :
         Settle(job, EmbeddingRun(job.data, documents, vectorsResult),
                stalled)

SynthesizeStep(llmResults, stalled) ==
  \E job \in Waiting("synthesize") :
    \E thesisResult \in llmResults :
      Settle(job, SynthesisRun(job.data, documents, metrics, filings,
                               ClockNow, IdBase(job), thesisResult), stalled)

\* the document store is unreachable when Normalization reads
NormalizeStoreRejects ==
  \E job \in Waiting("normalize") :
    Apply(job, NormalizationReadRejects(job.data))

\* the embedding store refuses the first vector Embedding persists
EmbedStoreRejects ==
  \E job \in Waiting("embed") :
    LET n == Len(DocumentListBySymbol(documents, job.data.symbol,
                                      EmbeddingReadLimit, job.data.runId))
    IN \E vectorsResult \in EmbeddingResults(n) :
         /\ EmbeddingRun(job.data, documents, vectorsResult).embeddings # <<>>
         /\ Apply(job, EmbeddingUpsertRejects(job.data, documents,
                                              vectorsResult))

\* ---- one request, every provider, LLM and embedding outcome
Tick == TickUpTo(MaxRequests)

Enqueue ==
  /\ Len(requests) < MaxRequests
  /\ \E symbol \in EnqueueInputs, force \in BOOLEAN :
       EnqueueForSymbol(symbol, "ingest", force)

IngestWorker == IngestStep(NewsResults, MetricsResults, FilingsResults, FALSE)

NormalizeWorker == NormalizeStep(LlmResults, FALSE)

EmbedWorker == EmbedStep(FALSE, FALSE)

SynthesizeWorker == SynthesizeStep(LlmResults, FALSE)

Next ==
  \/ Tick
  \/ Enqueue
  \/ IngestWorker
  \/ NormalizeWorker
  \/ EmbedWorker
  \/ SynthesizeWorker
  \/ NormalizeStoreRejects
  \/ EmbedStoreRejects

Spec == Init /\ [][Next]_vars

\* ---- several requests and runs, the providers, LLM and embedding answering
RunsTick == TickUpTo(MaxRuns)

RunsEnqueue ==
  /\ Len(requests) < MaxRuns
  /\ \E symbol \in RunInputs, force \in BOOLEAN :
       EnqueueForSymbol(symbol, "ingest", force)

RunsIngestWorker ==
  IngestStep(SteadyNewsResults, SteadyMetricsResults, SteadyFilingsResults,
             FALSE)

RunsNormalizeWorker == NormalizeStep(SteadyLlmResults, FALSE)

RunsEmbedWorker == EmbedStep(TRUE, FALSE)

RunsSynthesizeWorker == SynthesizeStep(SteadyLlmResults, FALSE)

RunsNext ==
  \/ RunsTick
  \/ RunsEnqueue
  \/ RunsIngestWorker
  \/ RunsNormalizeWorker
  \/ RunsEmbedWorker
  \/ RunsSynthesizeWorker

SpecRuns == Init /\ [][RunsNext]_vars

\* ---- one request, the providers, LLM and embedding answering, and workers
\* that may die before they settle a job
StallsTick == TickUpTo(MaxRequests)

StallsEnqueue ==
  /\ Len(requests) < MaxRequests
  /\ \E symbol \in EnqueueInputs, force \in BOOLEAN :
       EnqueueForSymbol(symbol, "ingest", force)

StallsIngestWorker ==
  \E stalled \in BOOLEAN :
    IngestStep(SteadyNewsResults, SteadyMetricsResults, SteadyFilingsResults,
               stalled)

StallsNormalizeWorker ==
  \E stalled \in BOOLEAN : NormalizeStep(SteadyLlmResults, stalled)

StallsEmbedWorker == \E stalled \in BOOLEAN : EmbedStep(TRUE, stalled)

StallsSynthesizeWorker ==
  \E stalled \in BOOLEAN : SynthesizeStep(LlmResults, stalled)

StallsNext ==
  \/ StallsTick
  \/ StallsEnqueue
  \/ StallsIngestWorker
  \/ StallsNormalizeWorker
  \/ StallsEmbedWorker
  \/ StallsSynthesizeWorker

SpecStalls == Init /\ [][StallsNext]_vars

\* ---- enqueue requests over every kind of symbol input and every stage
RequestTick == TickUpTo(MaxRequests)

RequestEnqueue ==
  /\ Len(requests) < MaxRequests
  /\ \E symbol \in SymbolInputs, stage \in Range(Stages), force \in BOOLEAN :
       EnqueueForSymbol(symbol, stage, force)

RequestNext ==
  \/ RequestTick
  \/ RequestEnqueue

SpecRequests == Init /\ [][RequestNext]_vars

\* ---- the pure functions, each applied to arguments drawn from bounded sets
pipeline == <<now, nextTask, requests, queue, documents, metrics, filings,
              embeddings, snapshots, lastExec, ingested>>

ResolveCompanyCall ==
  /\ call = NoCall
  /\ \E symbolOrName \in SymbolInputs :
       /\ call' = Applied("resolveCompany", symbolOrName,
                          resolveCompany(symbolOrName))
       /\ UNCHANGED pipeline

FetchArticlesCall ==
  /\ call = NoCall
  /\ \E n \in 1..MaxProviders :
       \E outcomes \in [1..n -> ProviderOutcomes],
          max \in 0..(MaxProviders * MaxArticles) :
         /\ call' = Applied("fetchArticles",
                            [settled |-> outcomes, limit |-> max],
                            fetchArticles(outcomes, max))
         /\ UNCHANGED pipeline

PreferRealProvidersCall ==
  /\ call = NoCall
  /\ \E items \in SeqsUpTo([provider : EvidenceProviders], MaxEvidence) :
       /\ call' = Applied("preferRealProviders", items,
                          preferRealProviders(items))
       /\ UNCHANGED pipeline

LatestMetricsCall ==
  /\ call = NoCall
  /\ \E metricPoints \in MetricInputs :
       /\ call' = Applied("latestMetrics", metricPoints,
                          LatestMetrics(metricPoints))
       /\ UNCHANGED pipeline

UniqueSourcesCall ==
  /\ call = NoCall
  /\ \E docs \in SeqsUpTo(CitedDocuments, MaxCited),
        metricPoints \in SeqsUpTo(CitedMetrics, MaxCited),
        filingRows \in SeqsUpTo(CitedFilings, MaxCited) :
       /\ call' = Applied("uniqueSources",
                          [docs |-> docs, metrics |-> metricPoints,
                           filings |-> filingRows],
                          uniqueSources(docs, metricPoints, filingRows))
       /\ UNCHANGED pipeline

ComputeScoreCall ==
  /\ call = NoCall
  /\ \E docsCount \in 0..MaxDocsCount, metricsCount \in 0..MaxMetricsCount,
        filingsCount \in 0..MaxFilingsCount :
       /\ call' = Applied("computeScore",
                          [docs |-> docsCount, metrics |-> metricsCount,
                           filings |-> filingsCount],
                          computeScore(docsCount, metricsCount, filingsCount))
       /\ UNCHANGED pipeline

ComputeConfidenceCall ==
  /\ call = NoCall
  /\ \E docs \in ConfidenceDocs, metricPoints \in ConfidenceMetrics,
        filingRows \in ConfidenceFilings, clockNow \in ClockTimes :
       /\ call' = Applied("computeConfidence",
                          [docs |-> docs, metrics |-> metricPoints,
                           filings |-> filingRows, now |-> clockNow],
                          computeConfidence(docs, metricPoints, filingRows,
                                            clockNow))
       /\ UNCHANGED pipeline

RequestJsonCall ==
  /\ call = NoCall
  /\ \E retries \in 0..MaxHttpRetries,
        outcomes \in [1..(MaxHttpRetries + 2) -> FetchOutcomes] :
       /\ call' = Applied("requestJson",
                          [retries |-> retries, outcomes |-> outcomes],
                          requestJson(retries, outcomes))
       /\ UNCHANGED pipeline

FunctionsNext ==
  \/ ResolveCompanyCall
  \/ FetchArticlesCall
  \/ PreferRealProvidersCall
  \/ LatestMetricsCall
  \/ RequestJsonCall

SpecFunctions == Init /\ [][FunctionsNext]_vars

\* ---- two requests for one symbol, every ingestion outcome, and completed
\* ---- jobs leaving the queue as other jobs complete
removeOnComplete == 250

\* the queue keeps the removeOnComplete most recently completed jobs of a
\* stage: after that many more jobs completed, those completed before are
\* gone
KeepCompleted(q, stage, completedSince) ==
  IF completedSince >= removeOnComplete
    THEN {j \in q : ~(j.stage = stage /\ j.state = "completed")}
    ELSE q

\* jobs of other symbols complete in the queue of a stage
OtherJobsComplete ==
  \E stage \in Range(Stages), completedSince \in {1, removeOnComplete} :
    /\ \E j \in queue : j.stage = stage /\ j.state = "completed"
    /\ queue' = KeepCompleted(queue, stage, completedSince)
    /\ UNCHANGED <<now, nextTask, requests, documents, metrics, filings,
                   embeddings, snapshots, lastExec, call, ingested>>

RetentionInputs == {"ttwo"}

RetentionTick == TickUpTo(MaxRuns)

RetentionEnqueue ==
  /\ Len(requests) < MaxRuns
  /\ \E symbol \in RetentionInputs :
       EnqueueForSymbol(symbol, "ingest", FALSE)

\* the news provider answers or fails; the other two providers are down
RetentionIngestWorker ==
  IngestStep({Err(NewsError), Ok(<<NewsItem1>>)}, {Err(MetricsError)},
             {Err(FilingsError)}, FALSE)

RetentionNormalizeWorker == NormalizeStep(SteadyLlmResults, FALSE)

RetentionEmbedWorker == EmbedStep(TRUE, FALSE)

RetentionSynthesizeWorker == SynthesizeStep(SteadyLlmResults, FALSE)

RetentionNext ==
  \/ RetentionTick
  \/ RetentionEnqueue
  \/ RetentionIngestWorker
  \/ RetentionNormalizeWorker
  \/ RetentionEmbedWorker
  \/ RetentionSynthesizeWorker
  \/ OtherJobsComplete

SpecRetention == Init /\ [][RetentionNext]_vars

\* ---- one request at time 0, every port outcome, the store and the queue
\* ---- available, and workers that take the jobs waiting for them
LiveEnqueue ==
  /\ Len(requests) < MaxRequests
  /\ \E symbol \in EnqueueInputs : EnqueueForSymbol(symbol, "ingest", FALSE)

LiveIngestWorker ==
  IngestStep(NewsResults, MetricsResults, FilingsResults, FALSE)

LiveNormalizeWorker == NormalizeStep(LlmResults, FALSE)

LiveEmbedWorker == EmbedStep(FALSE, FALSE)

LiveSynthesizeWorker == SynthesizeStep(LlmResults, FALSE)

LiveNext ==
  \/ LiveEnqueue
  \/ LiveIngestWorker
  \/ LiveNormalizeWorker
  \/ LiveEmbedWorker
  \/ LiveSynthesizeWorker

SpecLive ==
  /\ Init
  /\ [][LiveNext]_vars
  /\ WF_vars(LiveIngestWorker)
  /\ WF_vars(LiveNormalizeWorker)
  /\ WF_vars(LiveEmbedWorker)
  /\ WF_vars(LiveSynthesizeWorker)

\* ---- the functions that build the snapshot from the selected evidence
SnapshotNext ==
  \/ UniqueSourcesCall
  \/ ComputeScoreCall
  \/ ComputeConfidenceCall

SpecSnapshot == Init /\ [][SnapshotNext]_vars

\* =================================================================== properties
IsPrefix(s, t) == Len(s) <= Len(t) /\ SubSeq(t, 1, Len(s)) = s

SourcesOk == {i \in 1..Len(lastExec.calls) : lastExec.calls[i].ok}

JobsWithId(stage, jobId) ==
  {j \in queue : j.stage = stage /\ j.jobId = jobId}

\* C1: IngestionService.run fails if and only if all three source calls
\* return Err; with at least one Ok, even with zero items, it succeeds,
\* enqueues normalize exactly once and the normalize job is in the queue.
C1_IngestionFailsIffAllErr ==
  lastExec.stage = "ingest" =>
    /\ Len(lastExec.calls) = 3
    /\ lastExec.threw <=> SourcesOk = {}
    /\ ~lastExec.threw =>
         /\ Len(lastExec.enqueues) = 1
         /\ lastExec.enqueues[1].stage = "normalize"
         /\ JobsWithId("normalize", lastExec.payload.idempotencyKey) # {}
    /\ lastExec.threw => lastExec.enqueues = <<>>

\* an ingestion whose only successful source returned no item
C1_Witness ==
  /\ lastExec.stage = "ingest"
  /\ SourcesOk = {3}
  /\ lastExec.upserted = 0
  /\ ~lastExec.threw
  /\ lastExec.enqueues # <<>>

\* C2: every enqueue of a stage handler targets a strictly later stage:
\* ingest only normalize, normalize only embed or synthesize, embed only
\* synthesize, synthesize nothing.
C2_OneDirectional ==
  lastExec.stage # "none" =>
    \A i \in 1..Len(lastExec.enqueues) :
      LET target == lastExec.enqueues[i].stage
      IN /\ StageIndex(target) > StageIndex(lastExec.stage)
         /\ lastExec.stage = "ingest" => target = "normalize"
         /\ lastExec.stage = "normalize" => target \in {"embed", "synthesize"}
         /\ lastExec.stage = "embed" => target = "synthesize"

\* a normalization that degraded and still handed the job on
C2_Witness ==
  /\ lastExec.stage = "normalize"
  /\ lastExec.calls # <<>>
  /\ ~lastExec.calls[1].ok
  /\ Len(lastExec.enqueues) = 1

\* C3: when llm.synthesize returns Err, the synthesize stage fails and that
\* attempt saves no snapshot.
C3_SynthesisErrFailsStage ==
  (lastExec.stage = "synthesize" /\ ~lastExec.calls[1].ok) =>
    /\ lastExec.threw
    /\ lastExec.saved = <<>>

\* C4: every provider failure and every stage issue of the payload that
\* reaches Synthesis is in the diagnostics of the snapshot it saves.
C4_DiagnosticsInSnapshot ==
  lastExec.stage = "synthesize" =>
    \A k \in 1..Len(lastExec.saved) :
      /\ Range(lastExec.payload.providerFailures)
           \subseteq Range(lastExec.saved[k].diagnostics.providerFailures)
      /\ Range(lastExec.payload.stageIssues)
           \subseteq Range(lastExec.saved[k].diagnostics.stageIssues)

\* C5: the payload a stage handler enqueues keeps, in order, every
\* providerFailures and stageIssues entry and the metricsDiagnostics of the
\* payload it received.
C5_DiagnosticsAppendOnly ==
  lastExec.stage # "none" =>
    \A i \in 1..Len(lastExec.enqueues) :
      LET sent == lastExec.enqueues[i].payload
      IN /\ IsPrefix(lastExec.payload.providerFailures, sent.providerFailures)
         /\ IsPrefix(lastExec.payload.stageIssues, sent.stageIssues)
         /\ IsPrefix(lastExec.payload.metricsDiagnostics,
                     sent.metricsDiagnostics)

\* an embedding that adds its issue to a payload already carrying a provider
\* failure, metrics diagnostics and the issue of Normalization
C5_Witness ==
  /\ lastExec.stage = "embed"
  /\ lastExec.payload.providerFailures # <<>>
  /\ lastExec.payload.metricsDiagnostics # <<>>
  /\ Len(lastExec.payload.stageIssues) = 1
  /\ Len(lastExec.enqueues) = 1
  /\ Len(lastExec.enqueues[1].payload.stageIssues) = 2

SameBucket(r1, r2) ==
  /\ r1.resolved /\ r2.resolved
  /\ r1.canonical = r2.canonical
  /\ r1.stage = r2.stage
  /\ HourBucket(r1.at) = HourBucket(r2.at)

\* the earliest request that carried the key
FirstWithKey(key) ==
  requests[CHOOSE k \in 1..Len(requests) :
             /\ requests[k].resolved
             /\ requests[k].idempotencyKey = key
             /\ \A h \in 1..(k - 1) :
                  ~(requests[h].resolved /\ requests[h].idempotencyKey = key)]

C7_ForceBypassesDedupe ==
  \A i \in 1..Len(requests) :
    (requests[i].resolved /\ requests[i].force) =>
      /\ requests[i].idempotencyKey
           = <<requests[i].canonical, requests[i].stage,
               HourBucket(requests[i].at), "force", requests[i].taskId>>
      /\ \A j \in 1..Len(requests) :
           (j # i /\ SameBucket(requests[i], requests[j])) =>
             requests[j].idempotencyKey # requests[i].idempotencyKey
      /\ \E job \in JobsWithId(requests[i].stage, requests[i].idempotencyKey) :
           job.data.taskId = requests[i].taskId

\* two forced requests of one symbol within one hour
C7_Witness ==
  \E i, j \in 1..Len(requests) :
    /\ i < j
    /\ SameBucket(requests[i], requests[j])
    /\ requests[i].force /\ requests[j].force

ReadLimits == 1..3

ExpectedReads ==
  CASE lastExec.stage = "normalize" -> <<"documents">>
    [] lastExec.stage = "embed" -> <<"documents">>
    [] lastExec.stage = "synthesize" -> <<"documents", "metrics", "filings">>
    [] OTHER -> <<>>

\* C9: every listBySymbol call of Normalization, Embedding and Synthesis
\* passes the payload's runId, and the rows it gets are of that run only.
C9_StageReadsRunScoped ==
  /\ Len(lastExec.reads) = Len(ExpectedReads)
  /\ \A i \in 1..Len(lastExec.reads) :
       /\ lastExec.reads[i].repo = ExpectedReads[i]
       /\ lastExec.reads[i].symbol = lastExec.payload.symbol
       /\ lastExec.reads[i].runId = lastExec.payload.runId
       /\ lastExec.reads[i].rowRuns \subseteq {lastExec.payload.runId}

\* a normalization that read its documents while documents of another run of
\* the same symbol were stored
C9_Witness ==
  /\ lastExec.stage = "normalize"
  /\ lastExec.reads[1].rowRuns # {}
  /\ \E d \in documents : /\ d.symbol = lastExec.payload.symbol
                          /\ d.runId # lastExec.payload.runId

\* C10: when llm.summarize returns Err, Normalization does not fail and makes
\* exactly one enqueue, to embed, of the received payload with exactly one
\* normalize/degraded stage issue appended and nothing else changed.
C10_NormalizationDegrades ==
  (lastExec.stage = "normalize" /\ lastExec.calls # <<>>
     /\ ~lastExec.calls[1].ok) =>
    /\ ~lastExec.threw
    /\ Len(lastExec.enqueues) = 1
    /\ lastExec.enqueues[1].stage = "embed"
    /\ LET sent == lastExec.enqueues[1].payload
           n == Len(lastExec.payload.stageIssues)
       IN /\ Len(sent.stageIssues) = n + 1
          /\ SubSeq(sent.stageIssues, 1, n) = lastExec.payload.stageIssues
          /\ sent.stageIssues[n + 1].stage = "normalize"
          /\ sent.stageIssues[n + 1].status = "degraded"
          /\ [sent EXCEPT !.stageIssues = lastExec.payload.stageIssues]
               = lastExec.payload

\* a normalization with a document to summarize and a failing LLM, on a
\* payload that carries a provider failure
C10_Witness ==
  /\ lastExec.stage = "normalize"
  /\ lastExec.calls # <<>>
  /\ ~lastExec.calls[1].ok
  /\ lastExec.reads[1].rowRuns # {}
  /\ lastExec.payload.providerFailures # <<>>
  /\ JobsWithId("embed", lastExec.payload.idempotencyKey) # {}

EmbedReturned ==
  lastExec.stage = "embed" /\ ~lastExec.rejected /\ lastExec.calls # <<>>

StepCount(step) ==
  Cardinality({i \in 1..Len(lastExec.steps) : lastExec.steps[i] = step})

\* C11: when embedTexts returns Ok with k vectors for n documents and k # n,
\* the stage does not fail, exactly min(n, k) embeddings are persisted, the
\* i-th vector for the i-th document read, one dimension_mismatch stage issue
\* is appended to the payload and synthesize is enqueued as the last step.
C11_CountMismatchPersistsPrefix ==
  (EmbedReturned /\ lastExec.calls[1].ok
     /\ lastExec.calls[1].returned # Len(lastExec.reads[1].rowIds)) =>
    LET docIds == lastExec.reads[1].rowIds
        m == Min(Len(docIds), lastExec.calls[1].returned)
        n0 == Len(lastExec.payload.stageIssues)
    IN /\ ~lastExec.threw
       /\ Len(lastExec.persisted) = m
       /\ \A i \in 1..m :
            /\ lastExec.persisted[i] = [documentId |-> docIds[i],
                                        vector |-> <<i>>]
            /\ \E e \in embeddings : /\ e.documentId = docIds[i]
                                     /\ e.embedding = <<i>>
                                     /\ e.runId = lastExec.payload.runId
       /\ \A i \in (m + 1)..Len(docIds) :
            ~\E e \in embeddings : /\ e.documentId = docIds[i]
                                    /\ e.runId = lastExec.payload.runId
       /\ Len(lastExec.enqueues) = 1
       /\ lastExec.enqueues[1].stage = "synthesize"
       /\ LET sent == lastExec.enqueues[1].payload
          IN /\ Len(sent.stageIssues) = n0 + 1
             /\ SubSeq(sent.stageIssues, 1, n0) = lastExec.payload.stageIssues
             /\ sent.stageIssues[n0 + 1].code = "dimension_mismatch"
             /\ sent.stageIssues[n0 + 1].stage = "embed"
             /\ sent.stageIssues[n0 + 1].status = "degraded"
             /\ [sent EXCEPT !.stageIssues = lastExec.payload.stageIssues]
                  = lastExec.payload
       /\ StepCount({"upsertForDocument"}) = m
       /\ lastExec.steps[Len(lastExec.steps)] = {"enqueue"}
       /\ StepCount({"enqueue"}) = 1

\* one vector came back for two documents and one embedding was persisted
C11_Witness ==
  /\ EmbedReturned
  /\ lastExec.calls[1].ok
  /\ lastExec.calls[1].returned = 1
  /\ Len(lastExec.reads[1].rowIds) = 2
  /\ Len(lastExec.persisted) = 1
  /\ Cardinality(embeddings) = 1

\* C12: when embedTexts returns Err, Embedding does not fail, persists no
\* embedding and makes exactly one enqueue, to synthesize, of the received
\* payload with one embed/degraded stage issue appended.
C12_EmbeddingErrDegrades ==
  (EmbedReturned /\ ~lastExec.calls[1].ok) =>
    LET n0 == Len(lastExec.payload.stageIssues)
    IN /\ ~lastExec.threw
       /\ lastExec.persisted = <<>>
       /\ StepCount({"upsertForDocument"}) = 0
       /\ ~\E e \in embeddings : e.runId = lastExec.payload.runId
       /\ Len(lastExec.enqueues) = 1
       /\ lastExec.enqueues[1].stage = "synthesize"
       /\ LET sent == lastExec.enqueues[1].payload
          IN /\ Len(sent.stageIssues) = n0 + 1
             /\ SubSeq(sent.stageIssues, 1, n0) = lastExec.payload.stageIssues
             /\ sent.stageIssues[n0 + 1].stage = "embed"
             /\ sent.stageIssues[n0 + 1].status = "degraded"
             /\ [sent EXCEPT !.stageIssues = lastExec.payload.stageIssues]
                  = lastExec.payload

\* the embedding port failed for a run with documents and the synthesize job
\* is in the queue
C12_Witness ==
  /\ EmbedReturned
  /\ ~lastExec.calls[1].ok
  /\ lastExec.reads[1].rowIds # <<>>
  /\ JobsWithId("synthesize", lastExec.payload.idempotencyKey) # {}

SoftStage == lastExec.stage \in {"normalize", "embed"}

\* the LLM or embedding call of the last run failed, or returned a number of
\* vectors that differs from the number of documents
PortFailed ==
  /\ lastExec.calls # <<>>
  /\ \/ ~lastExec.calls[1].ok
     \/ /\ lastExec.stage = "embed"
        /\ lastExec.calls[1].returned # Len(lastExec.reads[1].rowIds)

\* C13 as stated: no failure met while Normalization or Embedding runs makes
\* the stage job fail, and the pipeline advances to a later stage.
C13_NeverEscalate ==
  SoftStage => (~lastExec.threw /\ lastExec.enqueues # <<>>)

\* C13 amended: an Err of the LLM or embedding port, or a vector count
\* mismatch, never makes a Normalization or Embedding run fail: the run
\* appends one stage issue and enqueues exactly one later stage; a rejection
\* by the document or embedding store is not caught, fails the attempt and
\* enqueues nothing.
C13_PortFailuresDegrade ==
  SoftStage =>
    /\ ~lastExec.rejected =>
         /\ ~lastExec.threw
         /\ Len(lastExec.enqueues) = 1
         /\ StageIndex(lastExec.enqueues[1].stage) > StageIndex(lastExec.stage)
         /\ Len(lastExec.enqueues[1].payload.stageIssues)
              = Len(lastExec.payload.stageIssues)
                  + (IF PortFailed THEN 1 ELSE 0)
    /\ lastExec.rejected => (lastExec.threw /\ lastExec.enqueues = <<>>)

\* Embedding degraded on a payload that Normalization had degraded already
C13_Witness ==
  /\ lastExec.stage = "embed"
  /\ ~lastExec.rejected
  /\ PortFailed
  /\ Len(lastExec.payload.stageIssues) = 1
  /\ Len(lastExec.enqueues) = 1
  /\ ~lastExec.threw

\* C14: every Synthesis run completes and saves one snapshot that carries
\* the payload's runId and taskId, whatever provider failures and stage
\* issues the payload holds and even when the run has no evidence at all.
C14_SynthesisAlwaysSaves ==
  lastExec.stage = "synthesize" =>
    /\ ~lastExec.threw
    /\ Len(lastExec.saved) = 1
    /\ lastExec.saved[1].runId = lastExec.payload.runId
    /\ lastExec.saved[1].taskId = lastExec.payload.taskId
    /\ lastExec.saved[1].symbol = lastExec.payload.symbol
    /\ lastExec.saved[1] \in snapshots

\* a synthesis of a run whose news and metrics sources failed and whose
\* filings source returned nothing: no document, metric point or filing
C14_Witness ==
  /\ lastExec.stage = "synthesize"
  /\ Len(lastExec.payload.providerFailures) = 2
  /\ \A i \in 1..3 : lastExec.reads[i].rowIds = <<>>
  /\ \E sn \in snapshots : sn.runId = lastExec.payload.runId

\* a synthesis of a payload that carries stage issues of both Normalization
\* and Embedding
C14_DegradedUpstream ==
  /\ lastExec.stage = "synthesize"
  /\ Len(lastExec.payload.stageIssues) = 2
  /\ lastExec.saved # <<>>

\* C15: for any runId at most one snapshot is ever saved, also when the
\* synthesize job is retried or delivered again by the queue, and a saved
\* snapshot is never modified or removed.
C15_OneSnapshotPerRun ==
  [][/\ snapshots \subseteq snapshots'
     /\ \A a, b \in snapshots' : a.runId = b.runId => a = b]_vars

LaterJobs(job, q) ==
  {j \in q : /\ j.data.taskId = job.data.taskId
             /\ StageIndex(j.stage) > StageIndex(job.stage)}

\* C16: a stage job is attempted at most 3 times; it is failed exactly when
\* its third attempt threw; a failed job is never taken again and no later
\* stage is ever enqueued for its task.
C16_BoundedRetries ==
  [][/\ \A job \in queue' :
          /\ job.attemptsMade <= 3
          /\ job.state = "failed" <=> job.attemptsMade = 3
          /\ job.state = "failed" => LaterJobs(job, queue') = {}
     /\ \A job \in queue : job.state = "failed" => job \in queue']_vars

\* an embed job whose every attempt threw
C16_Witness ==
  \E job \in queue : /\ job.stage = "embed"
                     /\ job.state = "failed"
                     /\ job.attemptsMade = 3
                     /\ lastExec.stage = "embed"
                     /\ lastExec.threw

FetchOps == {"fetchArticles", "fetchMetrics", "fetchFilings"}

UpsertOps == {"documentRepo.upsertMany", "metricsRepo.upsertMany",
              "filingsRepo.upsertMany"}

\* the steps of the last run in which an operation takes place
StepsOf(op) == {i \in 1..Len(lastExec.steps) : op \in lastExec.steps[i]}

SourceNames == <<"news", "metrics", "filings">>

SourceErrors == <<NewsError, MetricsError, FilingsError>>

\* C19: the payload Ingestion enqueues to normalize holds exactly one
\* provider failure for each source call that returned Err, with that
\* source's name and the provider of its error, and none for a source that
\* returned Ok.
C19_OneFailurePerErrSource ==
  (lastExec.stage = "ingest" /\ ~lastExec.threw) =>
    LET sent == lastExec.enqueues[1].payload
        pf == sent.providerFailures
        Of(i) == {k \in 1..Len(pf) : pf[k].source = SourceNames[i]}
    IN /\ \A i \in 1..3 :
            /\ Cardinality(Of(i)) = (IF lastExec.calls[i].ok THEN 0 ELSE 1)
            /\ \A k \in Of(i) : pf[k].provider = SourceErrors[i].provider
       /\ Len(pf) = 3 - Cardinality(SourcesOk)
       /\ \A job \in JobsWithId("normalize", sent.idempotencyKey) :
            job.data = sent

\* news and filings failed, metrics answered, and the normalize job carries
\* the two failures
C19_Witness ==
  /\ lastExec.stage = "ingest"
  /\ SourcesOk = {2}
  /\ \E job \in JobsWithId("normalize", lastExec.payload.idempotencyKey) :
       Len(job.data.providerFailures) = 2

\* the stored rows that have the natural key of an upserted entity
RowsWithKey(key) ==
  CASE key[1] = "documents" ->
         {r \in documents : <<"documents", r.provider, r.providerItemId>> = key}
    [] key[1] = "metrics" ->
         {r \in metrics : <<"metrics", r.symbol, r.provider, r.metricName,
                            r.asOf>> = key}
    [] OTHER ->
         {r \in filings : <<"filings", r.provider, r.dedupeKey>> = key}

Identity(payload) ==
  [runId |-> payload.runId, taskId |-> payload.taskId,
   symbol |-> payload.symbol, idempotencyKey |-> payload.idempotencyKey,
   requestedAt |-> payload.requestedAt,
   resolvedIdentity |-> payload.resolvedIdentity]

\* C21: runId, taskId, symbol, idempotencyKey, requestedAt and
\* resolvedIdentity of every payload a stage enqueues equal those of the
\* payload the stage received, and those of the job stored in the next queue.
C21_PayloadIdentityKept ==
  lastExec.stage # "none" =>
    \A i \in 1..Len(lastExec.enqueues) :
      /\ Identity(lastExec.enqueues[i].payload) = Identity(lastExec.payload)
      /\ \A job \in JobsWithId(lastExec.enqueues[i].stage,
                               lastExec.payload.idempotencyKey) :
           Identity(job.data) = Identity(lastExec.payload)

\* Embedding appended an issue to a payload with a resolved identity and the
\* synthesize job carries it
C21_Witness ==
  /\ lastExec.stage = "embed"
  /\ Len(lastExec.enqueues) = 1
  /\ lastExec.enqueues[1].payload.stageIssues # <<>>
  /\ lastExec.payload.resolvedIdentity # <<>>
  /\ JobsWithId("synthesize", lastExec.payload.idempotencyKey) # {}

\* C22: when Normalization or Embedding reads no run-scoped document it
\* makes no LLM or embedding call and exactly one enqueue, to synthesize, of
\* the payload it received.
C22_NoDocumentsSkip ==
  (SoftStage /\ ~lastExec.rejected /\ lastExec.reads[1].rowIds = <<>>) =>
    /\ ~lastExec.threw
    /\ lastExec.calls = <<>>
    /\ lastExec.persisted = <<>>
    /\ lastExec.enqueues
         = <<[stage |-> "synthesize", payload |-> lastExec.payload]>>

\* Embedding found no document of its run: a later run of the symbol had
\* taken them over
C22_Witness ==
  /\ lastExec.stage = "embed"
  /\ lastExec.reads[1].rowIds = <<>>
  /\ documents # {}
  /\ JobsWithId("synthesize", lastExec.payload.idempotencyKey) # {}

\* Normalization found no document of its run
C22_NormalizationSkips ==
  /\ lastExec.stage = "normalize"
  /\ lastExec.reads[1].rowIds = <<>>
  /\ JobsWithId("synthesize", lastExec.payload.idempotencyKey) # {}

\* ------------------------------------------------- news aggregator claims
Count(x, s) == Cardinality({i \in 1..Len(s) : s[i] = x})

Fetched == call.fn = "fetchArticles"

\* the providers that returned Ok
Succeeded(settled) ==
  {i \in 1..Len(settled) :
     settled[i].status = "fulfilled" /\ settled[i].value.ok}

\* the providers that returned Err
Failed(settled) ==
  {i \in 1..Len(settled) :
     settled[i].status = "fulfilled" /\ ~settled[i].value.ok}

HasUrl(item) == Len(normalizeUrl(item.url)) > 0

\* C23: the aggregator returns Err only if no provider succeeded, the error
\* then being the first provider failure; if a provider succeeded, even with
\* an empty list, the result is Ok and holds only items of the successes.
C23_ErrOnlyIfAllFail ==
  Fetched =>
    LET settled == call.args.settled
        out == call.result
    IN /\ ~out.ok =>
            /\ Succeeded(settled) = {}
            /\ \E i \in Failed(settled) :
                 /\ out.error = settled[i].value.error
                 /\ \A k \in Failed(settled) : i <= k
       /\ Succeeded(settled) # {} =>
            /\ out.ok
            /\ Range(out.value) \subseteq Range(MergedOf(settled))

\* C24: no two items of the result with a non-empty URL share a normalized
\* URL; the item kept for a URL has the latest publish time of all provider
\* items with that URL; when the limit cuts nothing, every URL of the
\* successes is present and every item without a URL is present as often as
\* the providers returned it.
C24_DedupeKeepsLatest ==
  (Fetched /\ call.result.ok) =>
    LET merged == MergedOf(call.args.settled)
        items == call.result.value
    IN /\ \A i, j \in 1..Len(items) :
            (i < j /\ HasUrl(items[i]))
              => normalizeUrl(items[i].url) # normalizeUrl(items[j].url)
       /\ \A i \in 1..Len(items) :
            /\ items[i] \in Range(merged)
            /\ HasUrl(items[i]) =>
                 \A k \in 1..Len(merged) :
                   normalizeUrl(merged[k].url) = normalizeUrl(items[i].url)
                     => merged[k].publishedAt <= items[i].publishedAt
       /\ call.args.limit >= Len(merged) =>
            \A k \in 1..Len(merged) :
              IF HasUrl(merged[k])
                THEN \E i \in 1..Len(items) :
                       normalizeUrl(items[i].url) = normalizeUrl(merged[k].url)
                ELSE Count(merged[k], items) = Count(merged[k], merged)

\* two providers returned the same URL in different spellings, the later item
\* first, and the same URL-less item each
C24_Witness ==
  /\ Fetched
  /\ call.result.ok
  /\ call.args.limit = 4
  /\ call.args.settled = <<Fulfilled(Ok(<<ArticleA2, ArticleN1>>)),
                           Fulfilled(Ok(<<ArticleA1, ArticleN1>>))>>
  /\ Count(ArticleN1, call.result.value) = 2
  /\ ArticleA2 \in Range(call.result.value)
  /\ ArticleA1 \notin Range(call.result.value)

\* C25: the result is sorted by publish time, latest first, holds
\* min(limit, size of the deduplicated list) items, all of them items of the
\* deduplicated list, and no item left out is more recent than an item kept.
C25_SortedAndLimited ==
  (Fetched /\ call.result.ok) =>
    LET deduped == DedupeByUrl(MergedOf(call.args.settled))
        items == call.result.value
    IN /\ \A i, j \in 1..Len(items) :
            i < j => items[i].publishedAt >= items[j].publishedAt
       /\ Len(items) <= call.args.limit
       /\ Len(items) = Min(call.args.limit, Len(deduped))
       /\ \A x \in Range(items) : Count(x, items) <= Count(x, deduped)
       /\ \A x \in Range(deduped) :
            Count(x, items) < Count(x, deduped)
              => \A i \in 1..Len(items) : items[i].publishedAt >= x.publishedAt

\* three distinct items, returned oldest first, cut to the two latest
C25_Witness ==
  /\ Fetched
  /\ call.result.ok
  /\ call.args.limit = 2
  /\ call.args.settled = <<Fulfilled(Ok(<<ArticleA1, ArticleA2>>)),
                           Fulfilled(Ok(<<ArticleN2, ArticleB>>))>>
  /\ call.result.value = <<ArticleB, ArticleA2>>

\* --------------------------------------------------- orchestrator claims
Letters == Range(Uppers) \cup Range(Lowers)

\* C26 as stated: every job id is the payload's idempotency key and is made
\* of characters in [A-Za-z0-9-] only.
C26_KeyAlnumHyphen ==
  \A job \in queue :
    /\ job.jobId = job.data.idempotencyKey
    /\ KeyChars(job.jobId) \subseteq Letters \cup Digits \cup {"-"}

\* C26: every job id is the payload's idempotency key, with or without
\* force, and is made of characters in [A-Za-z0-9.-] only: the '.' comes
\* from the symbol; it never contains ':'.
C26_KeyCharacters ==
  \A job \in queue :
    /\ job.jobId = job.data.idempotencyKey
    /\ KeyChars(job.jobId) \subseteq Letters \cup Digits \cup {"-", "."}
    /\ ":" \notin KeyChars(job.jobId)
    /\ "." \in KeyChars(job.jobId) => "." \in Range(Spell(job.data.symbol))

\* a forced request for rr.l put a job with a '.' in its id on the queue
C26_Witness ==
  \E job \in queue :
    /\ job.data.symbol = "RR.L"
    /\ Len(job.jobId) > 3
    /\ "." \in KeyChars(job.jobId)

\* the ticker shape as the specification words it
TickerShape(s) ==
  /\ Len(Spell(s)) <= 12
  /\ Range(Spell(s)) \subseteq Letters \cup Digits \cup {".", "-"}

\* C27: resolveCompany decides by the first rule that applies: empty after
\* trimming is a validation error; a key of the manual map gives confidence
\* 0.99, source manual_map and the input itself if it is an alias, else the
\* first alias; a ticker shape gives a heuristic identity of confidence 0.4
\* whose canonical symbol is the input; anything else is a validation error
\* that is not retryable.
C27_ResolveRuleOrder ==
  call.fn = "resolveCompany" =>
    LET normalized == Unspell(UpperChars(Trim(Spell(call.args))))
        out == call.result
    IN IF Trim(Spell(call.args)) = <<>>
         THEN ~out.ok /\ out.error.code = "validation_error"
       ELSE IF normalized \in ManualIdentityKeys
         THEN /\ out.ok
              /\ out.value.confidence = 99
              /\ out.value.resolutionSource = "manual_map"
              /\ out.value.canonicalSymbol
                   = IF normalized \in {"RYCEY", "RR.L"}
                       THEN normalized ELSE "RYCEY"
       ELSE IF TickerShape(normalized)
         THEN /\ out.ok
              /\ out.value.confidence = 40
              /\ out.value.resolutionSource = "heuristic"
              /\ out.value.canonicalSymbol = normalized
       ELSE /\ ~out.ok
            /\ out.error.code = "validation_error"
            /\ out.error.retryable = FALSE

\* an alias of the manual map, which also has the ticker shape, in lower case
C27_Witness ==
  /\ call.fn = "resolveCompany"
  /\ call.args = "rr.l"
  /\ call.result.ok
  /\ call.result.value.canonicalSymbol = "RR.L"
  /\ call.result.value.resolutionSource = "manual_map"

\* a name of the manual map that is no alias resolves to the first alias
C27_NameResolves ==
  /\ call.fn = "resolveCompany"
  /\ call.args = "Rolls-Royce"
  /\ call.result.ok
  /\ call.result.value.canonicalSymbol = "RYCEY"

\* thirteen characters are no ticker
C27_TooLong ==
  /\ call.fn = "resolveCompany"
  /\ call.args = "ABCDEFGHIJKLM"
  /\ ~call.result.ok

LastRequest == requests[Len(requests)]

\* C28: a request whose company resolution returned Err fails and leaves
\* the queue as it was: no job is enqueued and no task is created.
C28_UnresolvedEnqueuesNothing ==
  [][(requests' # requests
        /\ ~resolveCompany(requests'[Len(requests')].symbol).ok)
       => /\ ~requests'[Len(requests')].resolved
          /\ queue' = queue
          /\ nextTask' = nextTask]_vars

\* a request for a symbol with a colon was refused and the queue is empty
C28_Witness ==
  /\ requests # <<>>
  /\ LastRequest.symbol = "BRK:B"
  /\ ~LastRequest.resolved
  /\ queue = {}

\* ------------------------------------------------------- synthesis claims
\* the provider name starts with "mock", whatever the case of its letters
NameStartsWithMock(provider) ==
  StartsWith(LowerChars(Spell(provider)), Spell("mock"))

NoneFrom(items, IsMock(_)) == \A i \in 1..Len(items) : ~IsMock(items[i].provider)

AllFrom(items, IsMock(_)) == \A i \in 1..Len(items) : IsMock(items[i].provider)

C29_MockFallback ==
  /\ call.fn = "preferRealProviders"
  /\ call.args = <<[provider |-> "Mock-News"], [provider |-> "mock-news"]>>
  /\ call.result = call.args

NamesOf(points) == {points[i].metricName : i \in 1..Len(points)}

\* C30: the reduced metrics hold one point per metric name, the one with the
\* latest asOf of the points of that name, are sorted by asOf, latest first,
\* and number min(8, names): at most 8.
C30_MetricReduction ==
  call.fn = "latestMetrics" =>
    LET points == call.args
        out == call.result
    IN /\ \A i, j \in 1..Len(out) :
            i < j => /\ out[i].metricName # out[j].metricName
                     /\ out[i].asOf >= out[j].asOf
       /\ \A i \in 1..Len(out) :
            /\ out[i] \in Range(points)
            /\ \A k \in 1..Len(points) :
                 points[k].metricName = out[i].metricName
                   => points[k].asOf <= out[i].asOf
       /\ Len(out) <= 8
       /\ Len(out) = Min(8, Cardinality(NamesOf(points)))
       /\ \A k \in 1..Len(points) :
            points[k].metricName \notin NamesOf(out)
              => \A i \in 1..Len(out) : out[i].asOf >= points[k].asOf

\* ten points over nine names, the tenth later than the first of its name:
\* eight are kept and the later point stands for its name
C30_Witness ==
  /\ call.fn = "latestMetrics"
  /\ Len(call.args) = 10
  /\ Cardinality(NamesOf(call.args)) = 9
  /\ call.args[10].metricName = call.args[1].metricName
  /\ call.args[10].asOf > call.args[1].asOf
  /\ Len(call.result) = 8
  /\ call.args[10] \in Range(call.result)

\* ------------------------------------------------------- snapshot claims
\* the composite key of an entry of the sources list: metric entries carry
\* no url
CitationKey(entry) ==
  IF "url" \in DOMAIN entry
    THEN entry.provider \o <<"|">>
           \o (IF entry.url = Undefined THEN <<>> ELSE entry.url)
           \o <<"|">> \o entry.title
    ELSE entry.provider \o <<"|">> \o entry.title

\* C31: no two entries of the sources list have the same composite key,
\* and every document, metric and filing given is cited by an entry with its
\* key.
C31_NoRepeatedCitation ==
  call.fn = "uniqueSources" =>
    LET out == call.result
        cited == {CitationKey(out[i]) : i \in 1..Len(out)}
    IN /\ \A i, j \in 1..Len(out) :
            i < j => CitationKey(out[i]) # CitationKey(out[j])
       /\ \A i \in 1..Len(call.args.docs) :
            CitationKey(DocumentSource(call.args.docs[i])) \in cited
       /\ \A i \in 1..Len(call.args.metrics) :
            CitationKey(MetricSource(call.args.metrics[i])) \in cited
       /\ \A i \in 1..Len(call.args.filings) :
            CitationKey(FilingSource(call.args.filings[i])) \in cited

\* two documents whose keys differ only by an absent and an empty url, and a
\* filing with the key of the documents: one entry is left
C31_Witness ==
  /\ call.fn = "uniqueSources"
  /\ call.args.docs
       = <<[provider |-> <<"p">>, url |-> Undefined, title |-> <<"F">>],
           [provider |-> <<"p">>, url |-> <<>>, title |-> <<"F">>]>>
  /\ call.args.metrics = <<>>
  /\ call.args.filings
       = <<[provider |-> <<"p">>, docUrl |-> <<>>, filingType |-> <<"F">>,
            accessionNo |-> Undefined]>>
  /\ Len(call.result) = 1

KindsPresent(d, m, f) ==
  (IF d > 0 THEN 1 ELSE 0) + (IF m > 0 THEN 1 ELSE 0)
    + (IF f > 0 THEN 1 ELSE 0)

Abs(x) == IF x >= 0 THEN x ELSE 0 - x

\* C32: the score is min(30, 1.5 d) + min(35, 4.5 m) + min(25, 4 f)
\* + (kinds present / 3) * 10 rounded to one decimal: in thirtieths the sum
\* is exact, and three times the score in tenths is within 1.5 of it; the
\* score lies within [0, 100].
C32_ScoreFormula ==
  call.fn = "computeScore" =>
    LET d == call.args.docs
        m == call.args.metrics
        f == call.args.filings
        sum == (IF 45 * d < 900 THEN 45 * d ELSE 900)
                 + (IF 135 * m < 1050 THEN 135 * m ELSE 1050)
                 + (IF 120 * f < 750 THEN 120 * f ELSE 750)
                 + 100 * KindsPresent(d, m, f)
    IN /\ 2 * Abs(3 * call.result - sum) <= 3
       /\ call.result >= 0
       /\ call.result <= 1000

\* every contribution is capped and the score is 100
C32_Witness ==
  /\ call.fn = "computeScore"
  /\ call.args.docs > 20
  /\ call.args.metrics > 8
  /\ call.args.filings > 7
  /\ call.result = 1000

\* one document alone scores 1.5 + 3.33 = 4.8
C32_OneDocument ==
  /\ call.fn = "computeScore"
  /\ call.args = [docs |-> 1, metrics |-> 0, filings |-> 0]
  /\ call.result = 48

\* the timestamps of all the evidence given
EvidenceTimestamps(args) ==
  {args.docs[i].publishedAt : i \in 1..Len(args.docs)}
    \cup {args.metrics[i].asOf : i \in 1..Len(args.metrics)}
    \cup {args.filings[i].filedAt : i \in 1..Len(args.filings)}

\* the sum the specification states, in hundredths
StatedConfidence(args) ==
  LET d == Len(args.docs)
      m == Len(args.metrics)
      f == Len(args.filings)
      providers == Cardinality({args.docs[i].provider : i \in 1..d})
      covered == Cardinality({args.metrics[i].metricName : i \in 1..m}
                               \cap {"market_cap", "price_to_earnings",
                                     "revenue_growth_yoy", "profit_margin",
                                     "eps"})
      times == EvidenceTimestamps(args)
      freshest == CHOOSE t \in times : \A o \in times : t >= o
      age == args.now - freshest
  IN 25 + 12 * KindsPresent(d, m, f)
        + (IF 3 * providers < 8 THEN 3 * providers ELSE 8)
        + 3 * covered
        + (IF times = {} THEN 0
           ELSE IF age <= 48 THEN 8
           ELSE IF age <= 168 THEN 5
           ELSE IF age <= 720 THEN 2
           ELSE 0 - 7)
        - (IF d = 0 THEN 6 ELSE 0)
        - (IF m = 0 THEN 8 ELSE 0)
        - (IF f = 0 THEN 4 ELSE 0)

\* C33: the confidence is the stated sum, its recency adjustment taken from
\* the freshest timestamp of all the evidence, clamped to [0.10, 0.90]: it
\* is never below 0.10 nor above 0.90.
C33_ConfidenceClamped ==
  call.fn = "computeConfidence" =>
    LET stated == StatedConfidence(call.args)
    IN /\ call.result = (IF stated < 10 THEN 10
                         ELSE IF stated > 90 THEN 90 ELSE stated)
       /\ call.result >= 10
       /\ call.result <= 90

\* three kinds, three document providers, all core metrics and fresh
\* evidence: the sum is 0.92 and the confidence 0.90
C33_Witness ==
  /\ call.fn = "computeConfidence"
  /\ StatedConfidence(call.args) = 92
  /\ call.result = 90

\* no evidence at all: the sum is 0.07 and the confidence 0.10
C33_NoEvidence ==
  /\ call.fn = "computeConfidence"
  /\ EvidenceTimestamps(call.args) = {}
  /\ StatedConfidence(call.args) = 7
  /\ call.result = 10

\* the freshest timestamp is not the documents' but the metrics'
C33_FreshestIsMetric ==
  /\ call.fn = "computeConfidence"
  /\ call.args.docs # <<>>
  /\ call.args.docs[1].publishedAt = 100
  /\ call.args.metrics # <<>>
  /\ call.args.metrics[1].asOf = 900
  /\ call.args.now = 948

\* --------------------------------------------- run evidence and queue claims
\* C34: every document that Ingestion upserted for a run is returned by the
\* run-scoped document read of that run's normalize, embed and synthesize
\* stages, even when another run upserted a document with the same provider
\* and provider item id in between.
C34_RunEvidenceStable ==
  (lastExec.stage \in {"normalize", "embed", "synthesize"}
     /\ ~lastExec.rejected /\ ~lastExec.threw) =>
    \A h \in ingested :
      h.runId = lastExec.payload.runId =>
        \E i \in 1..Len(lastExec.reads) :
          /\ lastExec.reads[i].repo = "documents"
          /\ \E d \in documents :
               /\ d.provider = h.provider
               /\ d.providerItemId = h.providerItemId
               /\ d.id \in Range(lastExec.reads[i].rowIds)

\* a stage of a run read the documents while every document ingested for the
\* run belonged to a later run
C34_EvidenceTakenOver ==
  /\ lastExec.stage \in {"normalize", "embed", "synthesize"}
  /\ ~lastExec.rejected
  /\ \E h \in ingested : h.runId = lastExec.payload.runId
  /\ \A d \in documents : d.runId # lastExec.payload.runId
  /\ documents # {}

IngestAttempt == \E job \in Waiting("ingest") : job \notin queue'

JobIds(q) == {<<j.stage, j.jobId>> : j \in q}

\* C38: when all three source calls return Err the Ingestion attempt upserts
\* no document, metric point or filing and enqueues no job.
C38_FailedAttemptNoEffect ==
  [][(IngestAttempt /\ lastExec'.stage = "ingest"
        /\ \A i \in 1..Len(lastExec'.calls) : ~lastExec'.calls[i].ok
        /\ Len(lastExec'.calls) = 3) =>
       /\ documents' = documents
       /\ metrics' = metrics
       /\ filings' = filings
       /\ lastExec'.upserted = 0
       /\ lastExec'.enqueues = <<>>
       /\ JobIds(queue') = JobIds(queue)
       /\ {j \in queue' : j.stage # "ingest"}
            = {j \in queue : j.stage # "ingest"}]_vars

\* an Ingestion attempt found all three sources down and failed
C38_Witness ==
  /\ lastExec.stage = "ingest"
  /\ Len(lastExec.calls) = 3
  /\ SourcesOk = {}
  /\ lastExec.threw
  /\ \E job \in queue : job.stage = "ingest" /\ job.attemptsMade > 0
  /\ documents = {} /\ metrics = {} /\ filings = {}
  /\ \A job \in queue : job.stage = "ingest"

\* the UTC hour an instant falls in
UtcHour(t) == t \div TicksPerHour

\* two non-forced requests of one symbol and stage, less than an hour apart
\* and on different sides of an hour boundary
AcrossBoundary(i, j) ==
  /\ i < j
  /\ requests[i].resolved /\ requests[j].resolved
  /\ requests[i].canonical = requests[j].canonical
  /\ requests[i].stage = requests[j].stage
  /\ ~requests[i].force /\ ~requests[j].force
  /\ requests[j].at - requests[i].at < TicksPerHour
  /\ UtcHour(requests[i].at) # UtcHour(requests[j].at)

\* C39: two non-forced enqueues of the same symbol and stage made less than
\* one hour apart but on different sides of a UTC hour boundary get different
\* idempotency keys and each key has its own job in the stage's queue.
C39_BoundaryDoubleFires ==
  \A i, j \in 1..Len(requests) :
    AcrossBoundary(i, j) =>
      /\ requests[i].idempotencyKey # requests[j].idempotencyKey
      /\ \A k \in {i, j} :
           /\ Cardinality(JobsWithId(requests[k].stage,
                                     requests[k].idempotencyKey)) = 1
           /\ \A job \in JobsWithId(requests[k].stage,
                                    requests[k].idempotencyKey) :
                job.data.taskId
                  = FirstWithKey(requests[k].idempotencyKey).taskId

\* both requests of such a pair got a job of their own and both jobs ran
C39_Witness ==
  \E i, j \in 1..Len(requests) :
    /\ AcrossBoundary(i, j)
    /\ \A k \in {i, j} :
         \E job \in queue : /\ job.stage = requests[k].stage
                            /\ job.data.taskId = requests[k].taskId
                            /\ job.state = "completed"

\* ------------------------------------------------------- http client claims
\* the attempt failed in a way that may be retried
RetryableFailure(outcome) ==
  /\ ~performRequest(outcome).ok
  /\ performRequest(outcome).error.retryable

\* C40: requestJson performs at most retries+1 attempts; it returns the first
\* Ok at once, stops at once on a non-retryable failure, returns the last
\* failure after retries+1 retryable failures, and always returns a Result.
C40_BoundedRetries ==
  call.fn = "requestJson" =>
    LET retries == call.args.retries
        outcomes == call.args.outcomes
        performed == call.result.performed
        result == call.result.result
    IN /\ performed \in 1..(retries + 1)
       /\ result \in {Ok("body")}
            \cup {HttpError(code, retryable) :
                    code \in {"invalid_json", "non_success_status", "timeout",
                              "transport_error"},
                    retryable \in BOOLEAN}
       /\ result = performRequest(outcomes[performed])
       /\ \A k \in 1..(performed - 1) : RetryableFailure(outcomes[k])
       /\ \/ result.ok
          \/ ~result.error.retryable
          \/ performed = retries + 1
       /\ call.result.delays = [k \in 1..(performed - 1) |-> k]

\* every attempt the request allowed failed in a retryable way and the last
\* failure was returned
C40_Witness ==
  /\ call.fn = "requestJson"
  /\ call.args.retries = MaxHttpRetries
  /\ call.result.performed = MaxHttpRetries + 1
  /\ ~call.result.result.ok
  /\ call.result.result.error.retryable
  /\ call.result.result.error.code = "timeout"

\* ------------------------------------------------------------ liveness claims
\* the job of a stage for the run of a task has been processed to completion
StageCompleted(stage, taskId) ==
  \E job \in queue : /\ job.stage = stage
                     /\ job.data.taskId = taskId
                     /\ job.state = "completed"

\* C37: under fair worker scheduling, with the store and the queue available,
\* every run whose ingest job succeeded eventually has its synthesize job
\* enqueued and executed, whatever the LLM and the embedding port return in
\* the normalize and embed stages.
C37_IngestedRunsSynthesize ==
  \A taskId \in 1..MaxRequests :
    StageCompleted("ingest", taskId) ~> StageCompleted("synthesize", taskId)

\* a run was synthesized after its embed stage got vectors for none or not
\* all of its documents
C37_Witness ==
  /\ lastExec.stage = "synthesize"
  /\ \E taskId \in 1..MaxRequests :
       /\ StageCompleted("ingest", taskId)
       /\ StageCompleted("embed", taskId)
       /\ StageCompleted("synthesize", taskId)
       /\ lastExec.payload.taskId = taskId
  /\ documents # {}
  /\ embeddings = {}

\* ---------------------------------------------------------- retention claims
\* a later non-forced request carried the key of an earlier one
SameKeyLater(i, j) ==
  /\ i < j
  /\ requests[i].resolved /\ requests[j].resolved
  /\ ~requests[i].force /\ ~requests[j].force
  /\ requests[i].stage = requests[j].stage
  /\ requests[i].idempotencyKey = requests[j].idempotencyKey

JobsOfTask(taskId) == {job \in queue : job.data.taskId = taskId}

\* C35: if the first job with an idempotency key has already completed or
\* failed when a second enqueue with the same key arrives within the same
\* hour, the second enqueue causes no second execution of the stage.
C35_DedupeAfterSettled ==
  \A i, j \in 1..Len(requests) :
    (SameKeyLater(i, j) /\ requests[j].found # "waiting") =>
      JobsOfTask(requests[j].taskId) = {}

\* the same, for a first job that is still held by the queue: a failed job, or
\* a completed job that is among the removeOnComplete most recently completed
C35_DedupeWhileRetained ==
  \A i, j \in 1..Len(requests) :
    (SameKeyLater(i, j) /\ requests[j].found \in {"completed", "failed"}) =>
      JobsOfTask(requests[j].taskId) = {}

\* the second enqueue found the first job failed and added nothing
C35_FoundFailed ==
  \E i, j \in 1..Len(requests) :
    /\ SameKeyLater(i, j)
    /\ requests[j].found = "failed"
    /\ JobsOfTask(requests[j].taskId) = {}

\* the second enqueue came after the completed first job had been removed and
\* its job ran the stage a second time
C35_SecondExecution ==
  \E i, j \in 1..Len(requests) :
    /\ SameKeyLater(i, j)
    /\ requests[j].found = "none"
    /\ \E job \in JobsOfTask(requests[j].taskId) :
         job.stage = "ingest" /\ job.state = "completed"
    /\ lastExec.stage = "ingest"
    /\ lastExec.payload.taskId = requests[j].taskId

====
